---- MODULE Spec2Model ----
(***************************************************************************)
(* Model of ibm-ia-rest (src/index.js): the connection held on the module  *)
(* exports, makeRequest, the Project document builder and the asset        *)
(* discovery traversal of createOrUpdateAnalysisProject with its           *)
(* completion chain.  The catalog server (IGC / IA REST) is the            *)
(* environment: it answers every query from a fixed catalog chosen in Init *)
(* and responses arrive in any order.  Every callback runs to completion   *)
(* (node's single-threaded event loop), so each handler is one action.     *)
(***************************************************************************)
EXTENDS Integers, Sequences, FiniteSets, TLC

(***************************************************************************)
(* Bounds of the catalog the environment serves.                           *)
(***************************************************************************)
\* hosts that carry a database: H1 .. H<MaxDbHosts>
MaxDbHosts == 1
\* folders of the file host: "/" and its nested descendants, one file each
MaxFolders == 2

(***************************************************************************)
(* JavaScript values.  A string is a sequence of characters (a name that   *)
(* is never taken apart may be one opaque element); undefined is a value   *)
(* of its own, different from every string.                                *)
(***************************************************************************)
Undefined == <<"undefined">>
Empty == << >>

Min(a, b) == IF a < b THEN a ELSE b
Max(a, b) == IF a > b THEN a ELSE b

\* String.prototype.startsWith
StartsWith(s, p) ==
  /\ Len(p) <= Len(s)
  /\ SubSeq(s, 1, Len(p)) = p

\* does p occur in s at the 0-based position i
OccursAt(s, p, i) ==
  /\ i >= 0
  /\ i + Len(p) <= Len(s)
  /\ SubSeq(s, i + 1, i + Len(p)) = p

\* String.prototype.indexOf: first 0-based position of p in s, -1 if none
IndexOf(s, p) ==
  LET hits == {i \in 0..Len(s) : OccursAt(s, p, i)}
  IN IF hits = {} THEN -1 ELSE CHOOSE i \in hits : \A j \in hits : i <= j

\* String.prototype.lastIndexOf: last 0-based position of p in s, -1 if none
LastIndexOf(s, p) ==
  LET hits == {i \in 0..Len(s) : OccursAt(s, p, i)}
  IN IF hits = {} THEN -1 ELSE CHOOSE i \in hits : \A j \in hits : i >= j

\* String.prototype.substring(a, b): arguments are clamped to [0, length]
\* and swapped when a > b
Substring(s, a, b) ==
  LET ca == Max(0, Min(a, Len(s)))
      cb == Max(0, Min(b, Len(s)))
      lo == Min(ca, cb)
      hi == Max(ca, cb)
  IN SubSeq(s, lo + 1, hi)

\* String.prototype.substring(a)
SubstringFrom(s, a) == Substring(s, a, Len(s))

\* String.prototype.replace(new RegExp(p, 'g'), r): every occurrence, left
\* to right, non-overlapping
RECURSIVE ReplaceAll(_, _, _)
ReplaceAll(s, p, r) ==
  IF s = Empty THEN Empty
  ELSE IF OccursAt(s, p, 0)
       THEN r \o ReplaceAll(SubSeq(s, Len(p) + 1, Len(s)), p, r)
       ELSE <<Head(s)>> \o ReplaceAll(Tail(s), p, r)

\* the "::" that joins the parts of an identity string
Sep == <<":", ":">>
Slash == <<"/">>

\* igcrest.getItemIdentityString: the names of the item's context followed
\* by its own name, joined with "::"
RECURSIVE getItemIdentityString(_)
getItemIdentityString(parts) ==
  IF Len(parts) = 0 THEN Empty
  ELSE IF Len(parts) = 1 THEN parts[1]
  ELSE parts[1] \o Sep \o getItemIdentityString(Tail(parts))

\* concatenation of a sequence of sequences, in order
RECURSIVE Flatten(_)
Flatten(ss) == IF ss = << >> THEN << >> ELSE Head(ss) \o Flatten(Tail(ss))



(***************************************************************************)
(* The catalog the server answers from.  Host i carries the database DBi   *)
(* with the one schema SCH1; in DB1 it holds the tables T1[A,B] and T2[C], *)
(* in every other database the table T1[A].  H1 is also the file host:     *)
(* folder k is "/" followed by k-1 nested "d" folders and holds the one    *)
(* file f<k>.                                                              *)
(***************************************************************************)
Digit(i) == <<"1", "2", "3", "4", "5", "6", "7", "8", "9">>[i]

HostName(i) == <<"H", Digit(i)>>
DbName(i) == <<"D", "B", Digit(i)>>
SCH1 == <<"S", "C", "H", "1">>
SchemaNames(i) == <<SCH1>>
T1 == <<"T", "1">>
T2 == <<"T", "2">>

TableItem(i, schema, table, columns) ==
  [name |-> table, columns |-> columns, schema |-> schema,
   db |-> DbName(i), host |-> HostName(i)]

TablesOf(i, schema) ==
  IF i = 1 /\ schema = SCH1
    THEN <<TableItem(1, SCH1, T1, <<"A", "B">>), TableItem(1, SCH1, T2, <<"C">>)>>
  ELSE IF schema = SCH1
    THEN <<TableItem(i, SCH1, T1, <<"A">>)>>
  ELSE << >>

FileHost == HostName(1)
\* the names on the path of folder k below the host: "/", "d", "d", ...
FolderParts(k) == [j \in 1..k |-> IF j = 1 THEN Slash ELSE <<"d">>]
FolderIdentity(k) == getItemIdentityString(<<FileHost>> \o FolderParts(k))
FileName(k) == <<"f", Digit(k)>>
FileIdentity(k) == FolderIdentity(k) \o Sep \o FileName(k)
RecordName == <<"r">>
RecordIdentity(k) == FileIdentity(k) \o Sep \o RecordName
\* the connector and the project record the catalog knows
LocalFileConnectorRID == <<"dcn1">>
ProjectRID == <<"prj1">>

ProjectName == <<"Automated Profiling">>
ProjectDescription == <<"Automated Profiling project">>
OtherProject == <<"Another project">>

Label(type, id) == [type |-> type, id |-> id]

\* the objects that may carry the ignore label in a run (at most one)
LabelChoices ==
  { {},
    {Label("host", HostName(MaxDbHosts))},
    {Label("database", getItemIdentityString(<<HostName(1), DbName(1)>>))},
    {Label("database_schema", getItemIdentityString(<<HostName(1), DbName(1), SCH1>>))},
    {Label("database_table",
           getItemIdentityString(<<HostName(1), DbName(1), SCH1, T2>>))},
    {Label("data_file_folder", FolderIdentity(1))},
    {Label("data_file", FileIdentity(MaxFolders))} }

\* the catalogs a run may meet: a file without a record is combined with an
\* empty ignore list only
Catalogs ==
  { c \in [ dbHosts    : {1..n : n \in 0..MaxDbHosts},
            folders    : {1..m : m \in 0..MaxFolders},
            emptyFiles : { {}, {MaxFolders} },
            labelled   : LabelChoices,
            projects   : { {OtherProject}, {OtherProject, ProjectName} },
            filter     : BOOLEAN ] :
      c.emptyFiles # {} => c.labelled = {} /\ ~c.filter }

(***************************************************************************)
(* The answers of the catalog server to the queries of src/index.js.  Each *)
(* query carries the condition "labels.name = <ignore label>, negated";    *)
(* whether the server honours it is a property of the catalog (filter).    *)
(***************************************************************************)
IsLabelled(cat, type, id) == Label(type, id) \in cat.labelled
Visible(cat, type, id) == ~(cat.filter /\ IsLabelled(cat, type, id))

\* answer to the query of _getAllHostsWithDatabases: the host names
HostsWithDatabases(cat) ==
  LET names == [i \in 1..Cardinality(cat.dbHosts) |-> HostName(i)]
  IN SelectSeq(names, LAMBDA h : Visible(cat, "host", h))

\* answer to the query of _getAllHostsWithFiles
HostsWithFiles(cat) ==
  IF cat.folders # {} /\ Visible(cat, "host", FileHost) THEN <<FileHost>> ELSE << >>

\* answer to the query of _getAllDatabasesAndSchemasForHost
DatabasesAndSchemasForHost(cat, hostname) ==
  LET items == [i \in 1..Cardinality(cat.dbHosts) |->
                  [name |-> DbName(i), host |-> HostName(i), schemas |-> SchemaNames(i)]]
  IN SelectSeq(items, LAMBDA it :
       /\ it.host = hostname
       /\ Visible(cat, "database", getItemIdentityString(<<it.host, it.name>>)))

\* answer to the query of _getAllTablesAndColumnsForSchema
TablesAndColumnsForSchema(cat, hostname, datasource, schema) ==
  LET owners == {i \in cat.dbHosts : HostName(i) = hostname /\ DbName(i) = datasource}
  IN IF owners = {} THEN << >>
     ELSE SelectSeq(TablesOf(CHOOSE i \in owners : TRUE, schema), LAMBDA t :
            Visible(cat, "database_table",
                    getItemIdentityString(<<t.host, t.db, t.schema, t.name>>)))

\* answer to the query of _getAllFoldersAndFilesForHost: every folder of the
\* host, nested ones included, each with its own files
FoldersAndFilesForHost(cat, hostname) ==
  LET items == [k \in 1..Cardinality(cat.folders) |->
                  [identity |-> FolderIdentity(k),
                   files |-> <<[id |-> k, name |-> FileName(k)]>>]]
  IN IF hostname # FileHost THEN << >>
     ELSE SelectSeq(items, LAMBDA it : Visible(cat, "data_file_folder", it.identity))

\* answer to the query of _getAllFieldNamesForFile: the records of the file
RecordsOfFile(cat, fileRID) ==
  IF fileRID \in cat.emptyFiles \/ fileRID \notin cat.folders THEN << >>
  ELSE <<[identity |-> RecordIdentity(fileRID), fields |-> <<"x", "y">>]>>

\* answer to the query of _getLocalFileConnectorForHost
ConnectorsOfHost(cat, hostname) ==
  IF hostname = FileHost THEN <<LocalFileConnectorRID>> ELSE << >>

\* answer to the query of _addFilesToProject: the connection with that _id
ConnectionsById(cat, dcnRID) ==
  IF dcnRID = LocalFileConnectorRID THEN <<[hostname |-> FileHost]>> ELSE << >>

\* answer to the query of _getProjectRID: the projects with that description
\* (the project exists once it is in the list or has been created)
ProjectsByDescription(cat, created) ==
  IF ProjectName \in cat.projects \/ created THEN <<ProjectRID>> ELSE << >>

\* getAllItemsToIgnore: the labelled items partitioned by type
IgnoreTypes ==
  {"host", "database", "database_schema", "database_table", "database_column",
   "data_file_folder", "data_file"}
getAllItemsToIgnore(cat) ==
  [t \in IgnoreTypes |-> {l.id : l \in {x \in cat.labelled : x.type = t}}]

(***************************************************************************)
(* Project document builder (function Project and its prototype).  An      *)
(* element is [tag, name, text, children]; name is the "name" attribute.   *)
(***************************************************************************)
Elem(tag, name, children) ==
  [tag |-> tag, name |-> name, text |-> Undefined, children |-> children]
TextNode(txt) ==
  [tag |-> "#text", name |-> Undefined, text |-> txt, children |-> << >>]

\* new Project(name): the root element with its name attribute
Project(name) == Elem("iaapi:Project", name, << >>)

setDescription(doc, desc) ==
  [doc EXCEPT !.children = Append(@, Elem("description", Undefined, <<TextNode(desc)>>))]

\* positions of the children of the root with that tag
getElementsByTagName(doc, tag) ==
  {i \in 1..Len(doc.children) : doc.children[i].tag = tag}

ColumnElems(aColumns) == [i \in 1..Len(aColumns) |-> Elem("Column", aColumns[i], << >>)]

\* a mutation of addTable: a DataSource and Schema of the same names are
\* looked up and reused for the new Table
addTableReusing(doc, datasource, schema, table, aColumns) ==
  LET nDS == getElementsByTagName(doc, "DataSources")
      withDS == IF nDS = {}
                  THEN [doc EXCEPT !.children = Append(@, Elem("DataSources", Undefined, << >>))]
                  ELSE doc
      at == CHOOSE i \in getElementsByTagName(withDS, "DataSources") :
              \A j \in getElementsByTagName(withDS, "DataSources") : i <= j
      sources == withDS.children[at].children
      same == {i \in 1..Len(sources) :
                 sources[i].name = datasource /\ sources[i].children[1].name = schema}
      eT == Elem("Table", table, ColumnElems(aColumns))
      eS == Elem("Schema", schema, <<eT>>)
      eDS == Elem("DataSource", datasource, <<eS>>)
  IN IF same = {}
       THEN [withDS EXCEPT !.children[at].children = Append(@, eDS)]
       ELSE [withDS EXCEPT
               !.children[at].children[CHOOSE i \in same : TRUE].children[1].children =
                 Append(@, eT)]

addTable(doc, datasource, schema, table, aColumns) ==
  LET nDS == getElementsByTagName(doc, "DataSources")
      withDS == IF nDS = {}
                  THEN [doc EXCEPT !.children = Append(@, Elem("DataSources", Undefined, << >>))]
                  ELSE doc
      at == CHOOSE i \in getElementsByTagName(withDS, "DataSources") :
              \A j \in getElementsByTagName(withDS, "DataSources") : i <= j
      eT == Elem("Table", table, ColumnElems(aColumns))
      eS == Elem("Schema", schema, <<eT>>)
      eDS == Elem("DataSource", datasource, <<eS>>)
  IN [withDS EXCEPT !.children[at].children = Append(@, eDS)]

\* a mutation of serializeToString: text nodes are not written
RECURSIVE serializeToStringTextless(_)
serializeToStringTextless(node) ==
  IF node.tag = "#text" THEN << >>
  ELSE <<[tok |-> "open", tag |-> node.tag, name |-> node.name]>>
       \o Flatten([i \in 1..Len(node.children) |->
                     serializeToStringTextless(node.children[i])])
       \o <<[tok |-> "close", tag |-> node.tag, name |-> Undefined]>>

\* XMLSerializer.serializeToString: the document as a sequence of tokens,
\* an opening token with the name attribute, the content, a closing token
RECURSIVE serializeToString(_)
serializeToString(node) ==
  IF node.tag = "#text" THEN <<[tok |-> "text", tag |-> "#text", name |-> node.text]>>
  ELSE <<[tok |-> "open", tag |-> node.tag, name |-> node.name]>>
       \o Flatten([i \in 1..Len(node.children) |-> serializeToString(node.children[i])])
       \o <<[tok |-> "close", tag |-> node.tag, name |-> Undefined]>>

\* DOMParser.parseFromString: the tokens are read from the left, stack
\* holds the elements that are open, the innermost last; an element that is
\* closed becomes the last child of the one around it
RECURSIVE parseTokens(_, _)
parseTokens(tokens, stack) ==
  IF tokens = << >> THEN stack[1]
  ELSE LET t == Head(tokens)
           n == Len(stack)
       IN IF t.tok = "open"
            THEN parseTokens(Tail(tokens), Append(stack, Elem(t.tag, t.name, << >>)))
          ELSE IF t.tok = "text"
            THEN parseTokens(Tail(tokens),
                   [stack EXCEPT ![n].children = Append(@, TextNode(t.name))])
          ELSE IF n = 1 THEN stack[1]
          ELSE parseTokens(Tail(tokens),
                 [i \in 1..(n - 1) |->
                    IF i = n - 1
                      THEN [stack[i] EXCEPT !.children = Append(@, stack[n])]
                      ELSE stack[i]])

parseFromString(tokens) == parseTokens(tokens, << >>)

(***************************************************************************)
(* State.                                                                  *)
(***************************************************************************)
VARIABLES
  auth,                \* exports.auth
  host,                \* exports.host
  port,                \* exports.port
  cat,                 \* the catalog of the server (environment)
  pc,                  \* where the run of createOrUpdateAnalysisProject is
  requests,            \* the requests makeRequest has put on the network
  bCreate,
  typesToIgnoreItems,
  pending,             \* catalog searches of the traversal awaiting their answer
  issued,              \* every leaf search (tables, field names) ever issued
  schemasDiscovered,
  schemasAdded,
  aFileList,
  proj,                \* the Project document
  chains,              \* the completion actions started, in order
  callbacks            \* the invocations of the caller's callback, in order

\* the state of the other entry points of the library: the calls of its
\* operations and the Project handle a caller builds by hand
VARIABLES
  ops,                 \* the calls of library operations, in the order made
  labels,              \* the labels of the catalog named ignoreLabelName
  built,               \* the builder operations applied to proj, in order
  aSources             \* the sources given to runColumnAnalysisForSources

\* the state of the command line utility that runs a column analysis and
\* waits for it (src/utils/runColumnAnalysis.js)
VARIABLES
  timers,              \* the intervals set and not cleared, by execution
  timer,               \* var timer: the interval set last, 0 before any
  execStatus,          \* the status of each execution on the server
  inflight,            \* analysisStatus requests awaiting their answer
  observed,            \* the status last handed to waitForCompletion
  publishCalls         \* calls of iarest.publishResults

opsVars == <<ops, labels>>
docVars == <<built, aSources>>
pollVars == <<timers, timer, execStatus, inflight, observed, publishCalls>>
\* the state of the remaining operations and utilities
VARIABLES
  idParts,             \* the names an identity string is built from
  idString,            \* the identity string built from them
  idForm               \* the revision that has built it, "none" before

\* the state of getStaleAnalysisResults
VARIABLES
  analysed,            \* the times of the analysis results the server holds
  aDataSources,        \* the data sources of the project
  timeToConsiderStale, \* the time given by the caller
  staleStage,          \* where the call is
  projectKeys,         \* projectTables and projectFiles
  awaited,             \* the searches not answered yet
  staleCallbacks       \* the calls of the caller's callback

\* the calls of reindexThinClient, in the order made
VARIABLES reindexCalls

\* the state of the Kafka-driven refresh of column analysis
VARIABLES
  refreshStage,        \* where the utility is
  aStaleSources,       \* the TAM RIDs of the sources handed to the analysis
  tamsToSources,       \* the keys of the dictionary of submitted TAM RIDs
  iTotalTAMs,          \* the number of sources to process
  tamsProcessed,       \* the TAM RIDs recorded as processed, in order
  publishing,          \* the publish requests not answered yet, per TAM RID
  tamEvents            \* the number of events delivered and of events committed

\* the state of the rule performance tester
VARIABLES
  perfStage,           \* where the utility is
  iTotalRules,         \* the number of rules read from the file
  currentRule,         \* the index the next call of runNextRule is given
  rulesStarted,        \* the rules whose command has been started, in order
  execObjs,            \* per rule, the fields set on its execution object
  rulesProcessed,      \* the rules recorded as completed, in order
  lookups,             \* per rule, the result requests not answered yet
  retries,             \* per rule, the retry timers not fired yet
  ruleEvents           \* the number of events delivered and of events committed

idVars == <<idParts, idString, idForm>>
refreshVars == <<refreshStage, aStaleSources, tamsToSources, iTotalTAMs, tamsProcessed,
                 publishing, tamEvents>>
perfVars == <<perfStage, iTotalRules, currentRule, rulesStarted, execObjs, rulesProcessed,
              lookups, retries, ruleEvents>>
toolVars == <<refreshVars, perfVars>>
reindexVars == <<reindexCalls>>
staleVars == <<analysed, aDataSources, timeToConsiderStale, staleStage, projectKeys,
               awaited, staleCallbacks>>
utilVars == <<idVars, staleVars, reindexVars, toolVars>>

apiVars == <<opsVars, docVars, pollVars>>

\* no operation has been called and no document is being built by hand
OpsIdle ==
  /\ ops = << >>
  /\ labels = {}
DocIdle ==
  /\ built = << >>
  /\ aSources = << >>
\* the utility has not been started
PollIdle ==
  /\ timers = {}
  /\ timer = 0
  /\ execStatus = << >>
  /\ inflight = << >>
  /\ observed = << >>
  /\ publishCalls = 0
ApiIdle == OpsIdle /\ DocIdle /\ PollIdle

\* no identity string has been built
IdIdle ==
  /\ idParts = << >>
  /\ idString = Empty
  /\ idForm = "none"
\* getStaleAnalysisResults has not been called
StaleIdle ==
  /\ analysed = << >>
  /\ aDataSources = << >>
  /\ timeToConsiderStale = 0
  /\ staleStage = "idle"
  /\ projectKeys = << >>
  /\ awaited = {}
  /\ staleCallbacks = << >>
ReindexIdle == reindexCalls = << >>
\* the refresh utility has not been started
RefreshIdle ==
  /\ refreshStage = "idle"
  /\ aStaleSources = {}
  /\ tamsToSources = {}
  /\ iTotalTAMs = 0
  /\ tamsProcessed = << >>
  /\ publishing = << >>
  /\ tamEvents = [delivered |-> 0, committed |-> 0]
\* the rule performance tester has not been started
PerfIdle ==
  /\ perfStage = "idle"
  /\ iTotalRules = 0
  /\ currentRule = 0
  /\ rulesStarted = << >>
  /\ execObjs = << >>
  /\ rulesProcessed = << >>
  /\ lookups = << >>
  /\ retries = << >>
  /\ ruleEvents = [delivered |-> 0, committed |-> 0]
ToolIdle == RefreshIdle /\ PerfIdle
UtilIdle == IdIdle /\ StaleIdle /\ ReindexIdle /\ ToolIdle

vars ==
  <<auth, host, port, cat, pc, requests, bCreate, typesToIgnoreItems, pending,
    issued, schemasDiscovered, schemasAdded, aFileList, proj, chains, callbacks,
    apiVars, utilVars>>

connVars == <<auth, host, port>>
runVars ==
  <<bCreate, typesToIgnoreItems, pending, issued, schemasDiscovered, schemasAdded,
    aFileList, proj, chains, callbacks>>

StatusOK == 200
StatusError == 500
Statuses == {StatusOK, StatusError}

\* a catalog search of the traversal
Search(kind, hostname, datasource, schema, fileRID) ==
  [kind |-> kind, host |-> hostname, db |-> datasource, schema |-> schema,
   file |-> fileRID]

Init ==
  /\ auth = Undefined
  /\ host = Undefined
  /\ port = Undefined
  /\ cat \in Catalogs
  /\ pc = "idle"
  /\ requests = {}
  /\ bCreate = Undefined
  /\ typesToIgnoreItems = [t \in IgnoreTypes |-> {}]
  /\ pending = {}
  /\ issued = {}
  /\ schemasDiscovered = << >>
  /\ schemasAdded = << >>
  /\ aFileList = << >>
  /\ proj = Undefined
  /\ chains = << >>
  /\ callbacks = << >>
  /\ ApiIdle
  /\ UtilIdle

(***************************************************************************)
(* Connection and transport.                                               *)
(***************************************************************************)
\* the values a caller passes for a user, password, host or port
Credentials == {Empty, <<"isadmin">>}
ServerParts == {Empty, <<"server">>}

\* exports.setAuth: throws on a missing user or password
setAuth(user, password) ==
  /\ pc = "idle"
  /\ ~(user = Undefined \/ user = Empty \/ password = Undefined \/ password = Empty)
  /\ auth' = user \o <<":">> \o password
  /\ UNCHANGED <<host, port, cat, pc, requests, runVars, apiVars, utilVars>>

\* exports.setServer: no validation
setServer(h, p) ==
  /\ pc = "idle"
  /\ host' = h
  /\ port' = p
  /\ UNCHANGED <<auth, cat, pc, requests, runVars, apiVars, utilVars>>

\* the guard of makeRequest: this.auth == "" || this.host == "" || this.port == ""
\* (undefined == "" is false)
SetupIncomplete(a, h, p) == a = Empty \/ h = Empty \/ p = Empty

\* the request makeRequest puts on the network
Request(path) == [path |-> path, auth |-> auth, host |-> host, port |-> port]

\* a server can answer only a request that names it and carries credentials
Answerable == auth # Undefined /\ host # Undefined /\ port # Undefined

(***************************************************************************)
(* createOrUpdateAnalysisProject: the start of a run and the two answers   *)
(* that precede the traversal.  An exception thrown in a callback is       *)
(* uncaught and ends the process: pc = "threw" and nothing runs afterwards.*)
(***************************************************************************)
ProjectsPath == "/ibm/iis/ia/api/projects"
CreatePath == "/ibm/iis/ia/api/create"
UpdatePath == "/ibm/iis/ia/api/update"
RegisterPath == "/ibm/iis/dq/da/rest/v1/catalog/dataSets/doRegisterAndAddToWorkspaces"

\* the call itself: builds the document and calls getProjectList, whose
\* makeRequest throws synchronously or puts the request on the network
createOrUpdateAnalysisProject(name, description) ==
  /\ pc = "idle"
  /\ proj' = setDescription(Project(name), description)
  /\ IF SetupIncomplete(auth, host, port)
       THEN /\ pc' = "threw"
            /\ UNCHANGED requests
       ELSE /\ pc' = "getProjectList"
            /\ requests' = requests \cup {Request(ProjectsPath)}
  /\ UNCHANGED <<apiVars, connVars, cat, bCreate, typesToIgnoreItems, pending, issued,
                 schemasDiscovered, schemasAdded, aFileList, chains, callbacks,
                 utilVars>>

\* the decision taken from the project list: is the name absent from it
ProjectAbsent(resList, name) == name \notin resList

\* the answer to GET projects: getProjectList throws on a status other than
\* 200, else the create-or-update decision is taken and the ignore list asked
getProjectListResponse(status) ==
  /\ pc = "getProjectList"
  /\ status = StatusOK => Answerable
  /\ IF status # StatusOK
       THEN /\ pc' = "threw"
            /\ UNCHANGED bCreate
       ELSE /\ bCreate' = ProjectAbsent(cat.projects, ProjectName)
            /\ pc' = "getAllItemsToIgnore"
  /\ UNCHANGED <<apiVars, connVars, cat, requests, typesToIgnoreItems, pending, issued,
                 schemasDiscovered, schemasAdded, aFileList, proj, chains, callbacks,
                 utilVars>>

\* the answer to the ignore-list search: both trees are started
getAllItemsToIgnoreResponse ==
  /\ pc = "getAllItemsToIgnore"
  /\ typesToIgnoreItems' = getAllItemsToIgnore(cat)
  /\ pending' = {Search("hostsWithDatabases", Empty, Empty, Empty, 0),
                 Search("hostsWithFiles", Empty, Empty, Empty, 0)}
  /\ pc' = "traversing"
  /\ UNCHANGED <<apiVars, connVars, cat, requests, bCreate, issued, schemasDiscovered,
                 schemasAdded, aFileList, proj, chains, callbacks, utilVars>>

(***************************************************************************)
(* The completion action: the gate and the chain it starts.                *)
(***************************************************************************)
\* a mutation of Endpoint: the two endpoints swapped
EndpointSwapped(create) == IF create THEN UpdatePath ELSE CreatePath

\* the endpoint _createOrUpdateProjectRequest posts to
Endpoint(create) == IF create THEN CreatePath ELSE UpdatePath

\* _createOrUpdateProjectRequest as called from the gate: the chain that the
\* request starts (makeRequest has put the request on the network)
NewChain(input, create, sHostName) ==
  [stage |-> "upsert",
   endpoint |-> Endpoint(create),
   input |-> input,
   sHostName |-> sHostName,
   dcnRID |-> Undefined,
   projectRID |-> Undefined,
   fileList |-> Undefined]

\* the gate: schemasDiscovered.length == schemasAdded.length
GateOpen(discovered, added) == Len(discovered) = Len(added)

\* the state after the gate has been evaluated in a leaf callback that has
\* left the document as doc and the added list as added
Gate(doc, added, sHostName) ==
  IF GateOpen(schemasDiscovered, added)
    THEN IF SetupIncomplete(auth, host, port)
           THEN /\ pc' = "threw"
                /\ UNCHANGED <<requests, chains>>
           ELSE /\ chains' = Append(chains, NewChain(serializeToString(doc), bCreate, sHostName))
                /\ requests' = requests \cup {Request(Endpoint(bCreate))}
                /\ UNCHANGED pc
    ELSE UNCHANGED <<pc, requests, chains>>

(***************************************************************************)
(* Database tree: hosts -> databases and schemas -> tables and columns.    *)
(***************************************************************************)
\* the hosts of an answer that are not on the ignore list, in order
HostsToDescend(resHosts, ignore) ==
  SelectSeq(resHosts, LAMBDA h : h \notin ignore["host"])

\* a mutation of SchemasToDescend: the schema ignore check is left out
SchemasToDescendUnchecked(resDBs, ignore) ==
  Flatten([j \in 1..Len(resDBs) |->
    LET item == resDBs[j]
    IN IF getItemIdentityString(<<item.host, item.name>>) \notin ignore["database"]
         THEN [k \in 1..Len(item.schemas) |->
                 [host |-> item.host, db |-> item.name, schema |-> item.schemas[k]]]
         ELSE << >>])

\* the (host, database, schema) branches of the answer resDBs that survive
\* the database and schema ignore checks, in the order of the two loops
SchemasToDescend(resDBs, ignore) ==
  Flatten([j \in 1..Len(resDBs) |->
    LET item == resDBs[j]
        branches == [k \in 1..Len(item.schemas) |->
                       [host |-> item.host, db |-> item.name, schema |-> item.schemas[k]]]
    IN IF getItemIdentityString(<<item.host, item.name>>) \notin ignore["database"]
         THEN SelectSeq(branches, LAMBDA b :
                getItemIdentityString(<<b.host, b.db, b.schema>>)
                  \notin ignore["database_schema"])
         ELSE << >>])

\* a mutation of PushDiscovered: the push is left to the branch's callback
PushDiscoveredLate(discovered, identities) == discovered

\* schemasDiscovered.push for every branch about to be scheduled
PushDiscovered(discovered, identities) == discovered \o identities

\* the answer to the hosts-with-databases search
hostsWithDatabasesResponse ==
  LET r == Search("hostsWithDatabases", Empty, Empty, Empty, 0)
      hosts == HostsToDescend(HostsWithDatabases(cat), typesToIgnoreItems)
  IN /\ pc = "traversing"
     /\ r \in pending
     /\ pending' = (pending \ {r}) \cup
          {Search("databases", hosts[i], Empty, Empty, 0) : i \in 1..Len(hosts)}
     /\ UNCHANGED <<apiVars, connVars, cat, pc, requests, bCreate, typesToIgnoreItems, issued,
                    schemasDiscovered, schemasAdded, aFileList, proj, chains, callbacks,
                 utilVars>>

\* the answer to the databases-and-schemas search of one host: every
\* surviving schema is pushed onto schemasDiscovered and its tables are asked
databasesResponse(r) ==
  LET branches == SchemasToDescend(DatabasesAndSchemasForHost(cat, r.host),
                                   typesToIgnoreItems)
      searches == {Search("tables", branches[i].host, branches[i].db,
                          branches[i].schema, 0) : i \in 1..Len(branches)}
  IN /\ pc = "traversing"
     /\ r \in pending
     /\ r.kind = "databases"
     /\ schemasDiscovered' = PushDiscovered(schemasDiscovered,
          [i \in 1..Len(branches) |->
             getItemIdentityString(<<branches[i].host, branches[i].db, branches[i].schema>>)])
     /\ pending' = (pending \ {r}) \cup searches
     /\ issued' = issued \cup searches
     /\ UNCHANGED <<apiVars, connVars, cat, pc, requests, bCreate, typesToIgnoreItems,
                    schemasAdded, aFileList, proj, chains, callbacks, utilVars>>

\* the tables of an answer that are not on the ignore list, in order
TablesToAdd(items, ignore) ==
  SelectSeq(items, LAMBDA t :
    getItemIdentityString(<<t.host, t.db, t.schema, t.name>>) \notin ignore["database_table"])

\* proj.addTable for each table of a sequence, in order
RECURSIVE AddTables(_, _)
AddTables(doc, tables) ==
  IF tables = << >> THEN doc
  ELSE AddTables(addTable(doc, Head(tables).db, Head(tables).schema, Head(tables).name,
                          Head(tables).columns),
                 Tail(tables))

\* what the tables callback pushes onto schemasAdded: sDbName and sSchemaName
\* are the callback's own hoisted vars, not yet assigned at the push
AddedForSchema(r) == Undefined \o Sep \o Undefined

\* the answer to the tables-and-columns search of one schema
tablesResponse(r) ==
  LET items == TablesAndColumnsForSchema(cat, r.host, r.db, r.schema)
      added == Append(schemasAdded, AddedForSchema(r))
      doc == AddTables(proj, TablesToAdd(items, typesToIgnoreItems))
      sHostName == IF items = << >> THEN Empty ELSE items[Len(items)].host
  IN /\ pc = "traversing"
     /\ r \in pending
     /\ r.kind = "tables"
     /\ pending' = pending \ {r}
     /\ schemasAdded' = added
     /\ proj' = doc
     /\ Gate(doc, added, sHostName)
     /\ UNCHANGED <<apiVars, connVars, cat, bCreate, typesToIgnoreItems, issued,
                    schemasDiscovered, aFileList, callbacks, utilVars>>

(***************************************************************************)
(* File tree: hosts -> folders and files -> field names.                   *)
(***************************************************************************)
\* the files of the answer resFolders that survive the folder and file
\* ignore checks, in the order of the two loops
FilesToDescend(resFolders, ignore) ==
  Flatten([j \in 1..Len(resFolders) |->
    LET item == resFolders[j]
        files == [k \in 1..Len(item.files) |->
                    [folderPath |-> item.identity, id |-> item.files[k].id,
                     name |-> item.files[k].name]]
    IN IF item.identity \notin ignore["data_file_folder"]
         THEN SelectSeq(files, LAMBDA f :
                (f.folderPath \o Sep \o f.name) \notin ignore["data_file"])
         ELSE << >>])

\* the answer to the hosts-with-files search
hostsWithFilesResponse ==
  LET r == Search("hostsWithFiles", Empty, Empty, Empty, 0)
      hosts == HostsToDescend(HostsWithFiles(cat), typesToIgnoreItems)
  IN /\ pc = "traversing"
     /\ r \in pending
     /\ pending' = (pending \ {r}) \cup
          {Search("folders", hosts[i], Empty, Empty, 0) : i \in 1..Len(hosts)}
     /\ UNCHANGED <<apiVars, connVars, cat, pc, requests, bCreate, typesToIgnoreItems, issued,
                    schemasDiscovered, schemasAdded, aFileList, proj, chains, callbacks,
                 utilVars>>

\* the answer to the folders-and-files search of one host: every surviving
\* file is pushed onto schemasDiscovered and its field names are asked
foldersResponse(r) ==
  LET files == FilesToDescend(FoldersAndFilesForHost(cat, r.host), typesToIgnoreItems)
      searches == {Search("fieldNames", Empty, Empty, Empty, files[i].id) :
                     i \in 1..Len(files)}
  IN /\ pc = "traversing"
     /\ r \in pending
     /\ r.kind = "folders"
     /\ schemasDiscovered' = PushDiscovered(schemasDiscovered,
          [i \in 1..Len(files) |-> files[i].folderPath \o Sep \o files[i].name])
     /\ pending' = (pending \ {r}) \cup searches
     /\ issued' = issued \cup searches
     /\ UNCHANGED <<apiVars, connVars, cat, pc, requests, bCreate, typesToIgnoreItems,
                    schemasAdded, aFileList, proj, chains, callbacks, utilVars>>

\* the fieldList that _getAllFieldNamesForFile hands over: the identity and
\* the fields of the last record of the answer, no id when there is none
FieldList(records) ==
  IF records = << >>
    THEN [id |-> Undefined, fields |-> Undefined]
    ELSE [id |-> records[Len(records)].identity, fields |-> records[Len(records)].fields]

\* sHostName of the field-names callback
HostOfIdentity(identity) == Substring(identity, 0, IndexOf(identity, Sep))

\* the entry the field-names callback pushes onto aFileList
FileEntry(identity) ==
  LET path0 == Substring(identity, IndexOf(identity, Sep) + 2, LastIndexOf(identity, Sep))
      fileName == SubstringFrom(path0, LastIndexOf(path0, Sep) + 2)
      path1 == ReplaceAll(Substring(path0, 0, LastIndexOf(path0, Sep)), Sep, Slash)
      path2 == IF StartsWith(path1, Slash \o Slash) THEN SubstringFrom(path1, 1) ELSE path1
  IN path2 \o Slash \o fileName

\* the answer to the field-names search of one file
fieldNamesResponse(r) ==
  LET fieldList == FieldList(RecordsOfFile(cat, r.file))
      added == Append(schemasAdded, fieldList.id)
  IN /\ pc = "traversing"
     /\ r \in pending
     /\ r.kind = "fieldNames"
     /\ pending' = pending \ {r}
     /\ IF fieldList.id # Undefined
          THEN /\ schemasAdded' = added
               /\ aFileList' = Append(aFileList, FileEntry(fieldList.id))
               /\ Gate(proj, added, HostOfIdentity(fieldList.id))
          ELSE UNCHANGED <<schemasAdded, aFileList, pc, requests, chains>>
     /\ UNCHANGED <<apiVars, connVars, cat, bCreate, typesToIgnoreItems, issued,
                    schemasDiscovered, proj, callbacks, utilVars>>

(***************************************************************************)
(* The steps of a completion action, each the callback of the previous     *)
(* step's request.                                                         *)
(***************************************************************************)
\* _prepFilesArray: ";file[..]" or ";folder[..]" per entry, first ";" dropped
RECURSIVE PrepEntries(_)
PrepEntries(aFiles) ==
  IF aFiles = << >> THEN Empty
  ELSE LET file == Head(aFiles)
           one == IF Len(file) > 0 /\ file[Len(file)] = "/"
                    THEN <<";", "f", "o", "l", "d", "e", "r", "[">> \o file \o <<"]">>
                    ELSE <<";", "f", "i", "l", "e", "[">> \o file \o <<"]">>
       IN one \o PrepEntries(Tail(aFiles))
_prepFilesArray(aFiles) ==
  LET fileList == PrepEntries(aFiles)
  IN IF Len(fileList) > 0 THEN SubstringFrom(fileList, 1) ELSE fileList

\* has a create request of this run been answered with success
Created == \E i \in 1..Len(chains) :
  chains[i].endpoint = CreatePath /\ chains[i].stage # "upsert"

\* a mutation of createOrUpdateResponse: the caller's callback is invoked
\* from the answer to the create/update request
createOrUpdateResponseCallsBack(i, status) ==
  /\ pc = "traversing"
  /\ i \in 1..Len(chains)
  /\ chains[i].stage = "upsert"
  /\ IF status # StatusOK
       THEN /\ pc' = "threw"
            /\ UNCHANGED <<chains, callbacks>>
       ELSE /\ chains' = [chains EXCEPT ![i].stage = "done"]
            /\ callbacks' = Append(callbacks, [err |-> "null", result |-> "successful"])
            /\ UNCHANGED pc
  /\ UNCHANGED <<apiVars, connVars, cat, requests, bCreate, typesToIgnoreItems, pending, issued,
                 schemasDiscovered, schemasAdded, aFileList, proj, utilVars>>

\* the answer to the create/update request: throws unless 200, else asks for
\* the local file connector of sHostName
createOrUpdateResponse(i, status) ==
  /\ pc = "traversing"
  /\ i \in 1..Len(chains)
  /\ chains[i].stage = "upsert"
  /\ IF status # StatusOK
       THEN /\ pc' = "threw"
            /\ UNCHANGED chains
       ELSE /\ chains' = [chains EXCEPT ![i].stage = "connector"]
            /\ UNCHANGED pc
  /\ UNCHANGED <<apiVars, connVars, cat, requests, bCreate, typesToIgnoreItems, pending, issued,
                 schemasDiscovered, schemasAdded, aFileList, proj, callbacks,
                 utilVars>>

\* the answer to the connector search: dcnRID is the first item's id or "",
\* then the project record is asked by description
localFileConnectorResponse(i) ==
  LET found == ConnectorsOfHost(cat, chains[i].sHostName)
      dcnRID == IF Len(found) > 0 THEN found[1] ELSE Empty
  IN /\ pc = "traversing"
     /\ i \in 1..Len(chains)
     /\ chains[i].stage = "connector"
     /\ chains' = [chains EXCEPT ![i].stage = "projectRID", ![i].dcnRID = dcnRID]
     /\ UNCHANGED <<apiVars, connVars, cat, pc, requests, bCreate, typesToIgnoreItems, pending,
                    issued, schemasDiscovered, schemasAdded, aFileList, proj, callbacks,
                 utilVars>>

\* the answer to the project search: projectRID is the first item's id or "",
\* then _addFilesToProject asks for the connection with the id dcnRID
projectRIDResponse(i) ==
  LET found == ProjectsByDescription(cat, Created)
      projectRID == IF Len(found) > 0 THEN found[1] ELSE Empty
  IN /\ pc = "traversing"
     /\ i \in 1..Len(chains)
     /\ chains[i].stage = "projectRID"
     /\ chains' = [chains EXCEPT ![i].stage = "connection", ![i].projectRID = projectRID]
     /\ UNCHANGED <<apiVars, connVars, cat, pc, requests, bCreate, typesToIgnoreItems, pending,
                    issued, schemasDiscovered, schemasAdded, aFileList, proj, callbacks,
                 utilVars>>

\* the answer to the connection search of _addFilesToProject: with an item
\* the files collected so far are sent for registration, without one nothing
\* further happens
connectionResponse(i) ==
  /\ pc = "traversing"
  /\ i \in 1..Len(chains)
  /\ chains[i].stage = "connection"
  /\ IF Len(ConnectionsById(cat, chains[i].dcnRID)) > 0
       THEN IF SetupIncomplete(auth, host, port)
              THEN /\ pc' = "threw"
                   /\ UNCHANGED <<chains, requests>>
              ELSE /\ chains' = [chains EXCEPT ![i].stage = "register",
                                               ![i].fileList = _prepFilesArray(aFileList)]
                   /\ requests' = requests \cup {Request(RegisterPath)}
                   /\ UNCHANGED pc
       ELSE /\ chains' = [chains EXCEPT ![i].stage = "dropped"]
            /\ UNCHANGED <<pc, requests>>
  /\ UNCHANGED <<apiVars, connVars, cat, bCreate, typesToIgnoreItems, pending, issued,
                 schemasDiscovered, schemasAdded, aFileList, proj, callbacks,
                 utilVars>>

\* the answer to the registration request: throws unless 200, else the
\* caller's callback is invoked
registerResponse(i, status) ==
  /\ pc = "traversing"
  /\ i \in 1..Len(chains)
  /\ chains[i].stage = "register"
  /\ IF status # StatusOK
       THEN /\ pc' = "threw"
            /\ UNCHANGED <<chains, callbacks>>
       ELSE /\ chains' = [chains EXCEPT ![i].stage = "done"]
            /\ callbacks' = Append(callbacks, [err |-> "null", result |-> "successful"])
            /\ UNCHANGED pc
  /\ UNCHANGED <<apiVars, connVars, cat, requests, bCreate, typesToIgnoreItems, pending, issued,
                 schemasDiscovered, schemasAdded, aFileList, proj, utilVars>>

(***************************************************************************)
(* Failure of a request on the network.  makeRequest registers a handler   *)
(* for the request's 'error' event that throws; nothing catches it.        *)
(***************************************************************************)
\* the requests of makeRequest that await their answer
AwaitingAnswer ==
  (IF pc = "getProjectList" THEN {ProjectsPath} ELSE {})
  \cup {chains[i].endpoint : i \in {j \in 1..Len(chains) : chains[j].stage = "upsert"}}
  \cup {RegisterPath : i \in {j \in 1..Len(chains) : chains[j].stage = "register"}}

\* a mutation of requestError: the error is handed to the caller's callback
requestErrorCallsBack ==
  /\ pc \in {"getProjectList", "traversing"}
  /\ AwaitingAnswer # {}
  /\ pc' = "errored"
  /\ callbacks' = Append(callbacks, [err |-> "error", result |-> "undefined"])
  /\ UNCHANGED <<apiVars, connVars, cat, requests, bCreate, typesToIgnoreItems, pending,
                 issued, schemasDiscovered, schemasAdded, aFileList, proj, chains,
                 utilVars>>

\* req.on('error'): throw new Error(e)
requestError ==
  /\ pc \in {"getProjectList", "traversing"}
  /\ AwaitingAnswer # {}
  /\ pc' = "errored"
  /\ UNCHANGED <<apiVars, connVars, cat, requests, runVars, utilVars>>

Next ==
  \/ \E u \in Credentials, pw \in Credentials : setAuth(u, pw)
  \/ \E h \in ServerParts, p \in ServerParts : setServer(h, p)
  \/ createOrUpdateAnalysisProject(ProjectName, ProjectDescription)
  \/ \E status \in Statuses : getProjectListResponse(status)
  \/ getAllItemsToIgnoreResponse
  \/ hostsWithDatabasesResponse
  \/ \E r \in pending : databasesResponse(r)
  \/ \E r \in pending : tablesResponse(r)
  \/ hostsWithFilesResponse
  \/ \E r \in pending : foldersResponse(r)
  \/ \E r \in pending : fieldNamesResponse(r)
  \/ \E i \in 1..Len(chains), status \in Statuses : createOrUpdateResponse(i, status)
  \/ \E i \in 1..Len(chains) : localFileConnectorResponse(i)
  \/ \E i \in 1..Len(chains) : projectRIDResponse(i)
  \/ \E i \in 1..Len(chains) : connectionResponse(i)
  \/ \E i \in 1..Len(chains), status \in Statuses : registerResponse(i, status)
  \/ requestError

Spec == Init /\ [][Next]_vars

(***************************************************************************)
(* Properties of the traversal and its completion gate.                    *)
(***************************************************************************)
LeafKinds == {"tables", "fieldNames"}
LeafPending == {r \in pending : r.kind \in LeafKinds}

\* every search of the traversal has been answered
TraversalAnswered == pc = "traversing" /\ pending = {}

\* the branches of the catalog that survive the ignore checks: the schemas
\* and the files the two trees descend into
SurvivingSchemas ==
  LET ignore == getAllItemsToIgnore(cat)
      hosts == HostsToDescend(HostsWithDatabases(cat), ignore)
  IN Flatten([i \in 1..Len(hosts) |->
       SchemasToDescend(DatabasesAndSchemasForHost(cat, hosts[i]), ignore)])
SurvivingFiles ==
  LET ignore == getAllItemsToIgnore(cat)
      hosts == HostsToDescend(HostsWithFiles(cat), ignore)
  IN Flatten([i \in 1..Len(hosts) |->
       FilesToDescend(FoldersAndFilesForHost(cat, hosts[i]), ignore)])

\* C1: the create/update request is issued only when no discovery request
\* of either tree (host level, schema level, file level) is outstanding.
C1_GateAfterEveryBranch ==
  [][Len(chains') > Len(chains) => pending' = {}]_vars

\* C2: one run issues the create/update request at most once.
C2_SingleCreateOrUpdate == Len(chains) <= 1

\* C3: schemasAdded never outruns schemasDiscovered; a scheduled branch is
\* on schemasDiscovered while its answer is still awaited.
C3_AddedWithinDiscovered ==
  Len(schemasAdded) + Cardinality(LeafPending) <= Len(schemasDiscovered)

\* C3 witness: one branch has answered while another is still awaited
C3_Witness ==
  /\ Len(schemasAdded) >= 1
  /\ Len(schemasDiscovered) >= 2
  /\ LeafPending # {}

\* C4: once every answer has arrived, schemasDiscovered and schemasAdded
\* both hold one entry per surviving schema and per surviving file.
C4_OneAddedPerBranch ==
  TraversalAnswered =>
    /\ Len(schemasDiscovered) = Len(SurvivingSchemas) + Len(SurvivingFiles)
    /\ Len(schemasAdded) = Len(SurvivingSchemas) + Len(SurvivingFiles)

\* C5: no tables or field-names search is ever issued for an ignore-listed
\* schema or file, no such schema or file is on schemasDiscovered, and
\* schemasAdded holds entries of answered (hence issued) searches only.
C5_IgnoredNeverDescended ==
  /\ \A r \in issued :
       /\ r.kind = "tables" =>
            ~IsLabelled(cat, "database_schema",
                        getItemIdentityString(<<r.host, r.db, r.schema>>))
       /\ r.kind = "fieldNames" => ~IsLabelled(cat, "data_file", FileIdentity(r.file))
  /\ \A i \in 1..Len(schemasDiscovered) :
       /\ ~IsLabelled(cat, "database_schema", schemasDiscovered[i])
       /\ ~IsLabelled(cat, "data_file", schemasDiscovered[i])
  /\ \A i \in 1..Len(schemasAdded) :
       \A k \in 1..MaxFolders :
         IsLabelled(cat, "data_file", FileIdentity(k)) => schemasAdded[i] # RecordIdentity(k)
  /\ Len(schemasAdded) <= Cardinality(issued \ pending)

\* C5 witness: the answers are all in for a catalog whose host H1 has the
\* ignore-listed schema H1::DB1::SCH1
C5_Witness ==
  /\ TraversalAnswered
  /\ 1 \in cat.dbHosts
  /\ IsLabelled(cat, "database_schema", getItemIdentityString(<<HostName(1), DbName(1), SCH1>>))

(***************************************************************************)
(* Properties of what a run adds and of its completion action.             *)
(***************************************************************************)
Range(seq) == {seq[i] : i \in 1..Len(seq)}

\* the tables of the catalog
CatalogTables ==
  UNION {Range(TablesOf(i, SchemaNames(i)[k])) :
           i \in 1..MaxDbHosts, k \in 1..Len(SchemaNames(1))}

\* the table is ignore-listed or lies under an ignore-listed host, database
\* or schema
TableUnderIgnored(t) ==
  \/ IsLabelled(cat, "host", t.host)
  \/ IsLabelled(cat, "database", getItemIdentityString(<<t.host, t.db>>))
  \/ IsLabelled(cat, "database_schema", getItemIdentityString(<<t.host, t.db, t.schema>>))
  \/ IsLabelled(cat, "database_table",
                getItemIdentityString(<<t.host, t.db, t.schema, t.name>>))

\* file k is ignore-listed or lies under an ignore-listed host or folder
\* (folder j is folder k or one of its ancestors for every j <= k)
FileUnderIgnored(k) ==
  \/ IsLabelled(cat, "host", FileHost)
  \/ \E j \in 1..k : IsLabelled(cat, "data_file_folder", FolderIdentity(j))
  \/ IsLabelled(cat, "data_file", FileIdentity(k))

\* the DataSource elements of a document, in order
DataSourcesOf(doc) ==
  Flatten([i \in 1..Len(doc.children) |->
    IF doc.children[i].tag = "DataSources" THEN doc.children[i].children ELSE << >>])

\* the document has a DataSource/Schema/Table entry for the table
TableInDocument(doc, t) ==
  \E i \in 1..Len(DataSourcesOf(doc)) :
    LET eDS == DataSourcesOf(doc)[i]
    IN /\ eDS.name = t.db
       /\ eDS.children[1].name = t.schema
       /\ eDS.children[1].children[1].name = t.name

\* C6: nothing that is ignore-listed, or lies under an ignore-listed host,
\* database, schema or folder, is added to the document or to aFileList.
C6_NothingIgnoredAdded ==
  pc # "idle" =>
    /\ \A t \in CatalogTables : TableUnderIgnored(t) => ~TableInDocument(proj, t)
    /\ \A k \in 1..MaxFolders :
         FileUnderIgnored(k) => FileEntry(RecordIdentity(k)) \notin Range(aFileList)

\* C7: every create/update request of a run goes to the create endpoint if
\* and only if the project name was absent from the list fetched at the
\* start of the run.
C7_CreateIffAbsentAtStart ==
  /\ \A i \in 1..Len(chains) :
       chains[i].endpoint = (IF ProjectName \notin cat.projects THEN CreatePath ELSE UpdatePath)
  /\ \A r \in requests :
       /\ r.path = CreatePath => ProjectName \notin cat.projects
       /\ r.path = UpdatePath => ProjectName \in cat.projects

\* C7 witness: a second request goes to the create endpoint although the
\* first has already created the project
C7_Witness ==
  /\ Len(chains) = 2
  /\ chains[1].stage = "done"
  /\ chains[2].endpoint = CreatePath

\* the order of the steps of a completion action
ChainSteps ==
  { <<"upsert", "connector">>, <<"connector", "projectRID">>,
    <<"projectRID", "connection">>, <<"connection", "register">>,
    <<"connection", "dropped">>, <<"register", "done">> }

\* C8: a completion action starts with the serialized document and its
\* create/update request; each later step starts in the callback of the one
\* before; the registration request is sent from the connection step only;
\* the caller's callback is invoked only from the registration answer; a
\* failed answer starts nothing.
C8_StepsInOrder ==
  [][ /\ Len(chains') >= Len(chains)
      /\ \A i \in 1..Len(chains) :
           \/ chains'[i] = chains[i]
           \/ /\ <<chains[i].stage, chains'[i].stage>> \in ChainSteps
              /\ chains'[i].input = chains[i].input
              /\ pc' # "threw"
      /\ \A i \in (Len(chains) + 1)..Len(chains') :
           /\ chains'[i].stage = "upsert"
           /\ chains'[i].input = serializeToString(proj')
           /\ Request(chains'[i].endpoint) \in requests'
      /\ (Request(RegisterPath) \in requests' /\ Request(RegisterPath) \notin requests) =>
           \E i \in 1..Len(chains) :
             chains[i].stage = "connection" /\ chains'[i].stage = "register"
      /\ callbacks' # callbacks =>
           /\ Len(callbacks') = Len(callbacks) + 1
           /\ \E i \in 1..Len(chains) :
                chains[i].stage = "register" /\ chains'[i].stage = "done"
    ]_vars

\* C8 witness: a completion action has run through and the callback was invoked
C8_Witness ==
  /\ \E i \in 1..Len(chains) : chains[i].stage = "done"
  /\ Len(callbacks) >= 1

\* the scenario of C9: the project is not in the list, nothing is ignored,
\* one host with DB1/SCH1 and its tables T1[A,B] and T2[C], no files
C9_Scenario ==
  /\ ProjectName \notin cat.projects
  /\ cat.labelled = {}
  /\ cat.dbHosts = {1}
  /\ cat.folders = {}

Open(tag, name) == [tok |-> "open", tag |-> tag, name |-> name]
Close(tag) == [tok |-> "close", tag |-> tag, name |-> Undefined]
\* the names of the opening tokens of a tag, in order
OpensOf(input, tag) ==
  LET toks == SelectSeq(input, LAMBDA t : t.tok = "open" /\ t.tag = tag)
  IN [i \in 1..Len(toks) |-> toks[i].name]

\* C9 as stated: in the scenario the request is a create and its document
\* has two Table entries under one DataSource DB1 with one Schema SCH1.
C9_TwoTablesUnderOneDataSource ==
  C9_Scenario =>
    \A i \in 1..Len(chains) :
      /\ chains[i].endpoint = CreatePath
      /\ OpensOf(chains[i].input, "Table") = <<T1, T2>>
      /\ OpensOf(chains[i].input, "DataSource") = <<DbName(1)>>
      /\ OpensOf(chains[i].input, "Schema") = <<SCH1>>

\* the DataSource element addTable appends for one table
TableTokens(db, schema, table, columns) ==
  <<Open("DataSource", db), Open("Schema", schema), Open("Table", table)>>
  \o Flatten([i \in 1..Len(columns) |-> <<Open("Column", columns[i]), Close("Column")>>])
  \o <<Close("Table"), Close("Schema"), Close("DataSource")>>

\* C9 amended: in the scenario exactly one request is issued, it is a
\* create, and its document holds the two Table entries T1[A,B] and T2[C],
\* each under a DataSource DB1 and a Schema SCH1 of its own.
C9_TwoTablesEachInOwnDataSource ==
  C9_Scenario =>
    /\ Len(chains) <= 1
    /\ TraversalAnswered => Len(chains) = 1
    /\ \A i \in 1..Len(chains) :
         /\ chains[i].endpoint = CreatePath
         /\ chains[i].input =
              <<Open("iaapi:Project", ProjectName), Open("description", Undefined),
                [tok |-> "text", tag |-> "#text", name |-> ProjectDescription],
                Close("description"), Open("DataSources", Undefined)>>
              \o TableTokens(DbName(1), SCH1, T1, <<"A", "B">>)
              \o TableTokens(DbName(1), SCH1, T2, <<"C">>)
              \o <<Close("DataSources"), Close("iaapi:Project")>>

\* C9 witness: the create request of the scenario has been issued
C9_Witness == C9_Scenario /\ Len(chains) = 1

\* the run is at rest: no answer has failed and none is awaited, neither by
\* the traversal nor by a completion action
RunAtRest ==
  /\ pc = "traversing"
  /\ pending = {}
  /\ \A i \in 1..Len(chains) : chains[i].stage \in {"done", "dropped"}

\* C25: when every request of createOrUpdateAnalysisProject has got its
\* successful answer, the completion action has run and the caller's
\* callback has been invoked, whatever hosts, schemas and files were found
\* (none at all, or a file whose fields query gives no record, included):
\* the run does not come to rest without them.
C25_CompletionWhenAllAnswered ==
  RunAtRest => (Len(chains) >= 1 /\ Len(callbacks) >= 1)

C10_NoRequestWithoutConnection ==
  \A r \in requests : ~(r.auth = Undefined /\ r.host = Undefined /\ r.port = Undefined)

(***************************************************************************)
(* The operations of the library that call makeRequest themselves.  The    *)
(* caller has set the connection; each call is a record of ops, and the    *)
(* answers arrive in any order.  pc = "threw" once a callback has thrown.  *)
(***************************************************************************)
\* calls of operations one caller makes
MaxCalls == 2
\* TaskExecution elements in one answer of analysisStatus
MaxRecords == 2

Null == <<"null">>
StatusNotFound == 404
ResponseStatuses == Statuses \cup {StatusNotFound}

\* the operations whose callback hands the answer of their one request over
PlainOperations ==
  {"getProjectList", "getProjectDataSourceList", "runColumnAnalysis",
   "runColumnAnalysisForSources", "publishResults", "publishResultsForSources",
   "reindexThinClient", "getRuleExecutionFailedRecordsFromLastRun"}
Operations == PlainOperations \cup {"getTaskStatus", "addIADBToIgnoreList"}

\* the catalog of a process that runs no traversal
NoCatalog ==
  [dbHosts |-> {}, folders |-> {}, emptyFiles |-> {}, labelled |-> {},
   projects |-> {OtherProject}, filter |-> FALSE]

\* createOrUpdateAnalysisProject has not been called
RunIdle ==
  /\ cat = NoCatalog
  /\ requests = {}
  /\ bCreate = Undefined
  /\ typesToIgnoreItems = [t \in IgnoreTypes |-> {}]
  /\ pending = {}
  /\ issued = {}
  /\ schemasDiscovered = << >>
  /\ schemasAdded = << >>
  /\ aFileList = << >>
  /\ chains = << >>
  /\ callbacks = << >>

\* setAuth and setServer have been called with complete values
Connected ==
  /\ auth = <<"isadmin">> \o <<":">> \o <<"isadmin">>
  /\ host = <<"server">>
  /\ port = <<"server">>

\* the TaskExecution elements an answer of analysisStatus may hold
TaskExecution(status, progress) ==
  [executionId |-> <<"e1">>, executionTime |-> <<"7">>, progress |-> progress,
   status |-> status]
TaskRecords ==
  {TaskExecution(<<"running">>, <<"4", "2">>),
   TaskExecution(<<"successful">>, <<"1", "0", "0">>)}
RECURSIVE SeqsUpTo(_, _)
SeqsUpTo(S, n) ==
  IF n = 0 THEN {<< >>}
  ELSE LET shorter == SeqsUpTo(S, n - 1)
       IN shorter \cup {Append(q, x) : q \in shorter, x \in S}
TaskBodies == SeqsUpTo(TaskRecords, MaxRecords)

\* the body of an answer the library does not take apart
OpaqueBody == <<"body">>

\* a call whose request makeRequest has put on the network
NewCall(name) ==
  [name |-> name, stage |-> "request", sent |-> 1, statusCode |-> Undefined,
   body |-> Undefined, labelRID |-> Undefined, resSearch |-> Undefined,
   callbacks |-> << >>]

\* the call of an operation: makeRequest throws or sends the request
callOperation(name) ==
  /\ pc = "idle"
  /\ Len(ops) < MaxCalls
  /\ IF SetupIncomplete(auth, host, port)
       THEN pc' = "threw" /\ UNCHANGED ops
       ELSE ops' = Append(ops, NewCall(name)) /\ UNCHANGED pc
  /\ UNCHANGED <<connVars, cat, requests, runVars, labels, docVars, pollVars, utilVars>>

\* a mutation of Unsuccessful: only a server error counts
UnsuccessfulServerError(statusCode) == statusCode >= StatusError

\* res.statusCode != 200
Unsuccessful(statusCode) == statusCode # StatusOK

\* throw new Error(err) in the callback of call i
Throws(i, statusCode) ==
  /\ pc' = "threw"
  /\ ops' = [ops EXCEPT ![i].stage = "threw", ![i].statusCode = statusCode]

\* callback(err, result) of call i, which is thereby finished
CallsBack(i, statusCode, body, err, result) ==
  /\ ops' = [ops EXCEPT ![i].stage = "done", ![i].statusCode = statusCode,
                        ![i].body = body,
                        ![i].callbacks = Append(@, [err |-> err, result |-> result])]
  /\ UNCHANGED pc

\* what a plain operation hands over of the answer
PlainResult(name, body) ==
  IF name = "publishResultsForSources" THEN <<"successful">> ELSE body

\* the answer to the request of a plain operation
plainResponse(i, statusCode) ==
  /\ pc = "idle"
  /\ i \in 1..Len(ops)
  /\ ops[i].name \in PlainOperations
  /\ ops[i].stage = "request"
  /\ IF Unsuccessful(statusCode)
       THEN Throws(i, statusCode)
       ELSE CallsBack(i, statusCode, OpaqueBody, Null, PlainResult(ops[i].name, OpaqueBody))
  /\ UNCHANGED <<connVars, cat, requests, runVars, labels, docVars, pollVars, utilVars>>

(***************************************************************************)
(* getTaskStatus.                                                          *)
(***************************************************************************)
MoreThanOne == <<"More than one result found">>

\* var stat = {}
NoStat ==
  [executionId |-> Undefined, executionTime |-> Undefined, progress |-> Undefined,
   status |-> Undefined]

\* a mutation of StatOf: the status is mapped to an upper-case enum name
StatOfMapped(nlExec) ==
  IF nlExec = << >> THEN NoStat
  ELSE LET last == nlExec[Len(nlExec)]
       IN [last EXCEPT !.status =
             IF @ = <<"running">> THEN <<"RUNNING">>
             ELSE IF @ = <<"successful">> THEN <<"SUCCESSFUL">>
             ELSE @]

\* the loop over nlExec: every element overwrites the four attributes, so
\* stat holds those of the last element
StatOf(nlExec) ==
  IF nlExec = << >> THEN NoStat
  ELSE LET last == nlExec[Len(nlExec)]
       IN [executionId |-> last.executionId, executionTime |-> last.executionTime,
           progress |-> last.progress, status |-> last.status]

\* a mutation of StatErr: err is left null
StatErrNull(nlExec) == Null

\* err of getTaskStatus
StatErr(nlExec) == IF Len(nlExec) > 1 THEN MoreThanOne ELSE Null

\* the answer to the analysisStatus request; body is the sequence of the
\* TaskExecution elements of the answer
getTaskStatusResponse(i, statusCode, body) ==
  /\ pc = "idle"
  /\ i \in 1..Len(ops)
  /\ ops[i].name = "getTaskStatus"
  /\ ops[i].stage = "request"
  /\ IF Unsuccessful(statusCode)
       THEN Throws(i, statusCode)
       ELSE CallsBack(i, statusCode, body, StatErr(body), StatOf(body))
  /\ UNCHANGED <<connVars, cat, requests, runVars, labels, docVars, pollVars, utilVars>>

(***************************************************************************)
(* addIADBToIgnoreList and _createOrUpdateIgnoreList.  The searches, the   *)
(* create and the update go to the catalog; labels is what the catalog     *)
(* holds under the name of the ignore list.                                *)
(***************************************************************************)
UnableToFindIADB == <<"Unable to find IADB">>
\* the id the catalog gives the label created for call i
CreatedLabel(i) == <<"label", i>>
ExistingLabel == <<"label", 0>>
\* what the catalog answers to the update of the analysis database
ResUpdate == <<"updated">>
\* the items of the search for the data connection of the analysis database
IADBItems == {<< >>, <<[imports_database |-> <<"iadb">>]>>}

\* a step of call i that invokes nothing of the caller
Advance(i, stage) ==
  /\ ops' = [ops EXCEPT ![i].stage = stage]
  /\ UNCHANGED pc

\* the answer to getIADBParams: throws unless 200, else the label is
\* searched by name (_createOrUpdateIgnoreList)
getIADBParamsResponse(i, statusCode) ==
  /\ pc = "idle"
  /\ i \in 1..Len(ops)
  /\ ops[i].name = "addIADBToIgnoreList"
  /\ ops[i].stage = "request"
  /\ IF Unsuccessful(statusCode)
       THEN Throws(i, statusCode)
       ELSE /\ ops' = [ops EXCEPT ![i].stage = "labelSearch",
                                  ![i].statusCode = statusCode, ![i].body = OpaqueBody]
            /\ UNCHANGED pc
  /\ UNCHANGED <<connVars, cat, requests, runVars, labels, docVars, pollVars, utilVars>>

\* a mutation of LabelMissing: the result of the search is not looked at
LabelMissingAlways(labelRID) == TRUE

\* labelRID === "" after the loop over the items of the search
LabelMissing(labelRID) == labelRID = Empty

\* the answer to the search for the label: labelRID is the id of the last
\* item (the catalog decides the order), "" when there is none; a missing
\* label is created, a found one is handed on
labelSearchResponse(i) ==
  /\ pc = "idle"
  /\ i \in 1..Len(ops)
  /\ ops[i].stage = "labelSearch"
  /\ \E labelRID \in (IF labels = {} THEN {Empty} ELSE labels) :
       IF LabelMissing(labelRID)
         THEN Advance(i, "labelCreate")
         ELSE /\ ops' = [ops EXCEPT ![i].stage = "findIADB", ![i].labelRID = labelRID]
              /\ UNCHANGED pc
  /\ UNCHANGED <<connVars, cat, requests, runVars, labels, docVars, pollVars, utilVars>>

\* the answer to igcrest.create('label', ..): the catalog holds a new label
labelCreateResponse(i) ==
  /\ pc = "idle"
  /\ i \in 1..Len(ops)
  /\ ops[i].stage = "labelCreate"
  /\ labels' = labels \cup {CreatedLabel(i)}
  /\ ops' = [ops EXCEPT ![i].stage = "findIADB", ![i].labelRID = CreatedLabel(i)]
  /\ UNCHANGED <<connVars, cat, pc, requests, runVars, docVars, pollVars, utilVars>>

\* the answer to the search for the analysis database: with an item the
\* label is put on it, without one the caller is told
findIADBResponse(i, items) ==
  /\ pc = "idle"
  /\ i \in 1..Len(ops)
  /\ ops[i].stage = "findIADB"
  /\ IF Len(items) > 0
       THEN /\ ops' = [ops EXCEPT ![i].stage = "update", ![i].resSearch = items]
            /\ UNCHANGED pc
       ELSE /\ ops' = [ops EXCEPT ![i].stage = "done", ![i].resSearch = items,
                         ![i].callbacks = Append(@, [err |-> UnableToFindIADB,
                                                     result |-> items])]
            /\ UNCHANGED pc
  /\ UNCHANGED <<connVars, cat, requests, runVars, labels, docVars, pollVars, utilVars>>

\* the answer to igcrest.update: callback(err, resUpdate)
updateResponse(i) ==
  /\ pc = "idle"
  /\ i \in 1..Len(ops)
  /\ ops[i].stage = "update"
  /\ ops' = [ops EXCEPT ![i].stage = "done",
                        ![i].callbacks = Append(@, [err |-> Null, result |-> ResUpdate])]
  /\ UNCHANGED <<connVars, cat, pc, requests, runVars, labels, docVars, pollVars, utilVars>>

OpsInit ==
  /\ Connected
  /\ RunIdle
  /\ UtilIdle
  /\ pc = "idle"
  /\ proj = Undefined
  /\ ops = << >>
  /\ labels \in {{}, {ExistingLabel}}
  /\ DocIdle
  /\ PollIdle

OpsNext ==
  \/ \E name \in Operations : callOperation(name)
  \/ \E i \in 1..Len(ops), statusCode \in ResponseStatuses : plainResponse(i, statusCode)
  \/ \E i \in 1..Len(ops), statusCode \in ResponseStatuses, body \in TaskBodies :
       getTaskStatusResponse(i, statusCode, body)
  \/ \E i \in 1..Len(ops), statusCode \in ResponseStatuses :
       getIADBParamsResponse(i, statusCode)
  \/ \E i \in 1..Len(ops) : labelSearchResponse(i)
  \/ \E i \in 1..Len(ops) : labelCreateResponse(i)
  \/ \E i \in 1..Len(ops), items \in IADBItems : findIADBResponse(i, items)
  \/ \E i \in 1..Len(ops) : updateResponse(i)

OpsSpec == OpsInit /\ [][OpsNext]_vars

\* a caller that makes its next call in the callback of the one before
callInSequence(name) ==
  /\ \A i \in 1..Len(ops) : ops[i].stage = "done"
  /\ callOperation(name)

OpsSeqNext ==
  \/ \E name \in Operations : callInSequence(name)
  \/ \E i \in 1..Len(ops), statusCode \in ResponseStatuses : plainResponse(i, statusCode)
  \/ \E i \in 1..Len(ops), statusCode \in ResponseStatuses, body \in TaskBodies :
       getTaskStatusResponse(i, statusCode, body)
  \/ \E i \in 1..Len(ops), statusCode \in ResponseStatuses :
       getIADBParamsResponse(i, statusCode)
  \/ \E i \in 1..Len(ops) : labelSearchResponse(i)
  \/ \E i \in 1..Len(ops) : labelCreateResponse(i)
  \/ \E i \in 1..Len(ops), items \in IADBItems : findIADBResponse(i, items)
  \/ \E i \in 1..Len(ops) : updateResponse(i)

OpsSeqSpec == OpsInit /\ [][OpsSeqNext]_vars

(***************************************************************************)
(* Properties of the operations.                                           *)
(***************************************************************************)
Answered(i) == ops[i].stage # "request"

\* C11: for every operation an answer whose status is not 2xx is fatal: the
\* callback of that call throws, the caller's continuation is not invoked
\* for it, the request is sent once only, and nothing of the library runs
\* after the throw.
C11_NonSuccessIsFatal ==
  /\ \A i \in 1..Len(ops) :
       /\ ops[i].sent = 1
       /\ (Answered(i) /\ ops[i].statusCode \notin 200..299) =>
            /\ pc = "threw"
            /\ ops[i].stage = "threw"
            /\ ops[i].callbacks = << >>
  /\ pc = "threw" => ~ENABLED OpsNext

\* C11 witness: a call was answered 404 while another call awaits its answer
C11_Witness ==
  \E i, j \in 1..Len(ops) :
    /\ ops[i].stage = "threw"
    /\ ops[i].statusCode = StatusNotFound
    /\ ops[j].stage = "request"

\* C13: a logical error is handed to the caller's continuation, not thrown:
\* getTaskStatus with more than one execution record, and
\* addIADBToIgnoreList without the analysis database in the catalog, each
\* invoke the callback exactly once with an error that is not null, together
\* with the result (the attributes of the last record, the empty search
\* result); a callback throws on an unsuccessful status only.
C13_LogicalErrorsHandedOver ==
  \A i \in 1..Len(ops) :
    /\ ops[i].stage = "threw" => ops[i].statusCode # StatusOK
    /\ Len(ops[i].callbacks) <= 1
    /\ (ops[i].name = "getTaskStatus" /\ ops[i].stage = "done" /\ Len(ops[i].body) > 1) =>
         /\ Len(ops[i].callbacks) = 1
         /\ ops[i].callbacks[1].err = MoreThanOne
         /\ ops[i].callbacks[1].err # Null
         /\ ops[i].callbacks[1].result = ops[i].body[Len(ops[i].body)]
    /\ (ops[i].name = "addIADBToIgnoreList" /\ ops[i].stage = "done"
          /\ ops[i].resSearch = << >>) =>
         /\ Len(ops[i].callbacks) = 1
         /\ ops[i].callbacks[1].err = UnableToFindIADB
         /\ ops[i].callbacks[1].err # Null
         /\ ops[i].callbacks[1].result = ops[i].resSearch

\* C13 witness: one call of each kind has met its logical error
C13_Witness ==
  \E i, j \in 1..Len(ops) :
    /\ ops[i].name = "getTaskStatus" /\ ops[i].stage = "done" /\ Len(ops[i].body) = 2
    /\ ops[j].name = "addIADBToIgnoreList" /\ ops[j].stage = "done"
    /\ ops[j].resSearch = << >>

\* the calls that have asked the catalog to create the label
CreateRequests ==
  {i \in 1..Len(ops) : ops[i].stage = "labelCreate" \/ ops[i].labelRID = CreatedLabel(i)}

\* C14: find-or-create of the ignore-list label is idempotent: when
\* addIADBToIgnoreList is called again after its callback, the later call
\* finds the label the earlier one has left, issues no create request and
\* goes on with that label, and the catalog holds the label exactly once.
C14_SecondCallFinds ==
  /\ Cardinality(CreateRequests) <= 1
  /\ \A i, j \in 1..Len(ops) :
       ( /\ i < j
         /\ ops[i].name = "addIADBToIgnoreList"
         /\ ops[j].name = "addIADBToIgnoreList"
         /\ ops[j].stage \in {"labelCreate", "findIADB", "update", "done"} )
       => /\ j \notin CreateRequests
          /\ Cardinality(labels) = 1
          /\ ops[j].stage # "labelCreate" => ops[j].labelRID = ops[i].labelRID

C14_Witness ==
  /\ Len(ops) = 2
  /\ ops[1].name = "addIADBToIgnoreList" /\ ops[1].labelRID = CreatedLabel(1)
  /\ ops[2].name = "addIADBToIgnoreList" /\ ops[2].stage = "done"
  /\ ops[2].labelRID = CreatedLabel(1)
  /\ labels = {CreatedLabel(1)}

\* C26: when two find-or-create calls for the ignore-list label overlap,
\* at most one request to create the label is issued in total (and so the
\* catalog never holds the label twice).
C26_OneCreateWhenOverlapping ==
  /\ \A i, j \in CreateRequests : i = j
  /\ \A a, b \in labels : a = b

\* C16: getTaskStatus hands the status and progress attributes of the one
\* execution record of the answer to the caller as they are: for status
\* "running" and progress 42 the callback gets exactly "running" and 42,
\* with a null error.
C16_StatusHandedOverUnchanged ==
  \A i \in 1..Len(ops) :
    (ops[i].name = "getTaskStatus" /\ ops[i].stage = "done" /\ Len(ops[i].body) = 1) =>
      /\ Len(ops[i].callbacks) = 1
      /\ ops[i].callbacks[1].err = Null
      /\ ops[i].callbacks[1].result.status = ops[i].body[1].status
      /\ ops[i].callbacks[1].result.progress = ops[i].body[1].progress
      /\ ops[i].body[1] = TaskExecution(<<"running">>, <<"4", "2">>) =>
           /\ ops[i].callbacks[1].result.status = <<"running">>
           /\ ops[i].callbacks[1].result.progress = <<"4", "2">>

\* C16 witness: an answer with status running and progress 42 was handed over
C16_Witness ==
  \E i \in 1..Len(ops) :
    /\ ops[i].name = "getTaskStatus"
    /\ ops[i].stage = "done"
    /\ ops[i].body = <<TaskExecution(<<"running">>, <<"4", "2">>)>>

(***************************************************************************)
(* The utility that runs a column analysis and waits for its executions    *)
(* (src/utils/runColumnAnalysis.js).  Every execution id of the answer     *)
(* gets an interval that calls waitForCompletion; the handle of each is    *)
(* assigned to the one function-scoped var timer.                          *)
(***************************************************************************)
\* execution ids in the answer of runColumnAnalysis
MaxExecs == 2
\* analysisStatus requests of one execution awaiting their answer
MaxInFlight == 2
\* calls of publishResults counted
MaxPublishCalls == 2

Running == <<"running">>
Successful == <<"successful">>
TerminalStatuses == {Successful, <<"failed">>, <<"cancelled">>}
Execs == 1..MaxExecs

PollInit ==
  /\ Connected
  /\ RunIdle
  /\ UtilIdle
  /\ pc = "runColumnAnalysis"
  /\ proj = Undefined
  /\ OpsIdle
  /\ DocIdle
  /\ timers = {}
  /\ timer = 0
  /\ execStatus = [k \in Execs |-> Running]
  /\ inflight = [k \in Execs |-> 0]
  /\ observed = [k \in Execs |-> Undefined]
  /\ publishCalls = 0

\* the callback of iarest.runColumnAnalysis: the loop over aIDs sets one
\* interval per execution id, each assigned to timer
runColumnAnalysisResponse(statusCode, n) ==
  /\ pc = "runColumnAnalysis"
  /\ IF Unsuccessful(statusCode)
       THEN /\ pc' = "threw"
            /\ UNCHANGED <<timers, timer>>
       ELSE /\ timers' = 1..n
            /\ timer' = n
            /\ pc' = "polling"
  /\ UNCHANGED <<connVars, cat, requests, runVars, opsVars, docVars, execStatus,
                 inflight, observed, publishCalls, utilVars>>

\* an interval fires: waitForCompletion calls getTaskStatus, whose request
\* goes on the network
waitForCompletion(k) ==
  /\ pc = "polling"
  /\ k \in timers
  /\ inflight[k] < MaxInFlight
  /\ inflight' = [inflight EXCEPT ![k] = @ + 1]
  /\ UNCHANGED <<connVars, cat, pc, requests, runVars, opsVars, docVars, timers, timer,
                 execStatus, observed, publishCalls, utilVars>>

\* the server ends an execution
executionEnds(k, status) ==
  /\ pc = "polling"
  /\ execStatus[k] = Running
  /\ execStatus' = [execStatus EXCEPT ![k] = status]
  /\ UNCHANGED <<connVars, cat, pc, requests, runVars, opsVars, docVars, timers, timer,
                 inflight, observed, publishCalls, utilVars>>

\* clearInterval(timer)
clearInterval(active, handle) == active \ {handle}

\* the answer to an analysisStatus request of execution k: getTaskStatus
\* throws or hands stat to the callback in waitForCompletion, which does
\* nothing while running and else calls the callback given to setInterval:
\* clearInterval(timer), then publishResults or process.exit(1)
taskStatusResponse(k, statusCode) ==
  LET results == StatOf(<<TaskExecution(execStatus[k], <<"4", "2">>)>>)
      status == results.status
  IN /\ pc = "polling"
     /\ inflight[k] > 0
     /\ inflight' = [inflight EXCEPT ![k] = @ - 1]
     /\ IF Unsuccessful(statusCode)
          THEN /\ pc' = "threw"
               /\ UNCHANGED <<timers, observed, publishCalls>>
          ELSE /\ observed' = [observed EXCEPT ![k] = status]
               /\ IF status = Running
                    THEN UNCHANGED <<pc, timers, publishCalls>>
                    ELSE /\ timers' = clearInterval(timers, timer)
                         /\ IF status = Successful
                              THEN /\ publishCalls < MaxPublishCalls
                                   /\ publishCalls' = publishCalls + 1
                                   /\ UNCHANGED pc
                              ELSE /\ pc' = "exited"
                                   /\ UNCHANGED publishCalls
     /\ UNCHANGED <<connVars, cat, requests, runVars, opsVars, docVars, timer, execStatus, utilVars>>

PollNext ==
  \/ \E statusCode \in ResponseStatuses, n \in 0..MaxExecs :
       runColumnAnalysisResponse(statusCode, n)
  \/ \E k \in Execs : waitForCompletion(k)
  \/ \E k \in Execs, status \in TerminalStatuses : executionEnds(k, status)
  \/ \E k \in Execs, statusCode \in ResponseStatuses : taskStatusResponse(k, statusCode)

PollSpec == PollInit /\ [][PollNext]_vars

\* C15: the poll loop keeps asking while the status is running and stops
\* once a final status was observed: no analysisStatus request is issued
\* for an execution after successful, failed or cancelled was observed for
\* it, and the interval of an execution is cleared only when a final status
\* of that execution has been observed (or the process ends).
C15_PollsUntilFinalStatus ==
  [][\A k \in Execs :
       /\ inflight'[k] > inflight[k] => observed[k] \notin TerminalStatuses
       /\ (k \in timers /\ k \notin timers') => observed'[k] \in TerminalStatuses]_vars

\* C28: the completion handler runs at most once for an execution, so
\* publishResults is called at most once for every execution that has
\* ended successful, also with several executions polled at once and with
\* answers that arrive after the next interval has fired.
C28_PublishOncePerExecution ==
  publishCalls <= Cardinality({k \in Execs : execStatus[k] = Successful})

(***************************************************************************)
(* The rest of the document builder: addFile of Project and the task       *)
(* classes ColumnAnalysis and PublishResults.  The options of a task are   *)
(* attributes of its element and are left out.                             *)
(***************************************************************************)
\* the first of a non-empty set of positions: nodeList[0]
First(positions) == CHOOSE i \in positions : \A j \in positions : i <= j

\* a mutation of addFile: a DataSource of the same name is looked up and
\* the FileFolder is put under it
addFileReusing(doc, datasource, folder, file, aFields) ==
  LET withDS == IF getElementsByTagName(doc, "DataSources") = {}
                  THEN [doc EXCEPT !.children = Append(@, Elem("DataSources", Undefined, << >>))]
                  ELSE doc
      at == First(getElementsByTagName(withDS, "DataSources"))
      sources == withDS.children[at].children
      same == {i \in 1..Len(sources) : sources[i].name = datasource}
      eFolder == Elem("FileFolder", folder, <<Elem("FileName", file, ColumnElems(aFields))>>)
  IN IF same = {}
       THEN [withDS EXCEPT !.children[at].children =
               Append(@, Elem("DataSource", datasource, <<eFolder>>))]
       ELSE [withDS EXCEPT !.children[at].children[First(same)].children = Append(@, eFolder)]

addFile(doc, datasource, folder, file, aFields) ==
  LET withDS == IF getElementsByTagName(doc, "DataSources") = {}
                  THEN [doc EXCEPT !.children = Append(@, Elem("DataSources", Undefined, << >>))]
                  ELSE doc
      at == First(getElementsByTagName(withDS, "DataSources"))
      eFile == Elem("FileName", file, ColumnElems(aFields))
      eFolder == Elem("FileFolder", folder, <<eFile>>)
      eDS == Elem("DataSource", datasource, <<eFolder>>)
  IN [withDS EXCEPT !.children[at].children = Append(@, eDS)]

\* a mutation of ColumnAnalysis: the task gets a Tasks container of its own
ColumnAnalysisOwnTasks(doc) ==
  [doc EXCEPT !.children =
     Append(@, Elem("Tasks", Undefined, <<Elem("RunColumnAnalysis", Undefined, << >>)>>))]

\* new ColumnAnalysis(project, ..): the Tasks container is looked up, created
\* when there is none, and the RunColumnAnalysis element appended to it
ColumnAnalysis(doc) ==
  LET withTasks == IF getElementsByTagName(doc, "Tasks") = {}
                     THEN [doc EXCEPT !.children = Append(@, Elem("Tasks", Undefined, << >>))]
                     ELSE doc
      at == First(getElementsByTagName(withTasks, "Tasks"))
  IN [withTasks EXCEPT !.children[at].children =
        Append(@, Elem("RunColumnAnalysis", Undefined, << >>))]

\* new PublishResults(project)
PublishResults(doc) ==
  LET withTasks == IF getElementsByTagName(doc, "Tasks") = {}
                     THEN [doc EXCEPT !.children = Append(@, Elem("Tasks", Undefined, << >>))]
                     ELSE doc
      at == First(getElementsByTagName(withTasks, "Tasks"))
  IN [withTasks EXCEPT !.children[at].children =
        Append(@, Elem("PublishResults", Undefined, << >>))]

\* doc.getElementsByTagName(tag).item(0) for a task element: the position of
\* its container among the children of the root and its position in it
TaskItem0(doc, tag) ==
  LET found == {ij \in UNION {{<<i, j>> : j \in 1..Len(doc.children[i].children)} :
                               i \in 1..Len(doc.children)} :
                  doc.children[ij[1]].children[ij[2]].tag = tag}
  IN CHOOSE ij \in found :
       \A kl \in found : ij[1] < kl[1] \/ (ij[1] = kl[1] /\ ij[2] <= kl[2])

\* the child appended to the first task element of that tag
AppendToTask(doc, tag, child) ==
  LET ij == TaskItem0(doc, tag)
  IN [doc EXCEPT !.children[ij[1]].children[ij[2]].children = Append(@, child)]

Dot == <<".">>
Colon == <<":">>
Star == <<"*">>

\* ColumnAnalysis.addColumn: the hostname is not used
addColumn(doc, datasource, schema, table, column) ==
  AppendToTask(doc, "RunColumnAnalysis",
    Elem("Column", datasource \o Dot \o schema \o Dot \o table \o Dot \o column, << >>))

\* ColumnAnalysis.addFileField: the hostname is put in front when given
addFileField(doc, connection, path, filename, column, hostname) ==
  LET name == connection \o Colon \o path \o Colon \o filename \o Colon \o column
  IN AppendToTask(doc, "RunColumnAnalysis",
       Elem("Column", IF hostname # Undefined THEN hostname \o Colon \o name ELSE name, << >>))

(***************************************************************************)
(* runColumnAnalysisForSources: every source is taken for a file or for a  *)
(* table by the delimiter found in it.                                     *)
(***************************************************************************)
\* characters of a source
MaxSourceLen == 3

\* String.prototype.split(d)
RECURSIVE Split(_, _)
Split(str, d) ==
  LET i == IndexOf(str, d)
  IN IF i = -1 THEN <<str>>
     ELSE <<SubSeq(str, 1, i)>> \o Split(SubSeq(str, i + Len(d) + 1, Len(str)), d)

\* aTokens[k], undefined beyond the last token
Token(aTokens, k) == IF k < Len(aTokens) THEN aTokens[k + 1] ELSE Undefined

\* a mutation of addSource: the "." is looked for first
addSourceDotFirst(doc, sSourceName) ==
  IF IndexOf(sSourceName, Dot) > -1
    THEN LET aTokens == Split(sSourceName, Dot)
         IN addColumn(doc, Token(aTokens, 0), Token(aTokens, 1), Token(aTokens, 2), Star)
  ELSE IF IndexOf(sSourceName, Colon) > -1
    THEN LET aTokens == Split(sSourceName, Colon)
         IN addFileField(doc, Token(aTokens, 0), Token(aTokens, 1), Token(aTokens, 2),
                         Star, Undefined)
  ELSE doc

\* the body of the loop over aSources
addSource(doc, sSourceName) ==
  IF IndexOf(sSourceName, Colon) > -1
    THEN LET aTokens == Split(sSourceName, Colon)
         IN addFileField(doc, Token(aTokens, 0), Token(aTokens, 1), Token(aTokens, 2),
                         Star, Undefined)
  ELSE IF IndexOf(sSourceName, Dot) > -1
    THEN LET aTokens == Split(sSourceName, Dot)
         IN addColumn(doc, Token(aTokens, 0), Token(aTokens, 1), Token(aTokens, 2), Star)
  ELSE doc

RECURSIVE addSources(_, _)
addSources(doc, sources) ==
  IF sources = << >> THEN doc
  ELSE addSources(addSource(doc, Head(sources)), Tail(sources))

\* the sources of the two kinds as a caller writes them
TableSource == <<"DB1", ".", "SCH1", ".", "T1", ".", "*">>
FileSource == <<"HOST1", ":", "/data", ":", "file1", ":", "*">>
\* every short source over the two delimiters and a letter
SourceChars == {":", ".", "a"}
ShortSources == SeqsUpTo(SourceChars, MaxSourceLen)
SourceLists ==
  {<<str>> : str \in ShortSources \cup {TableSource, FileSource}}
  \cup {<<TableSource, FileSource>>}

SourcesInit ==
  /\ Connected
  /\ RunIdle
  /\ UtilIdle
  /\ pc = "idle"
  /\ proj = Undefined
  /\ OpsIdle
  /\ built = << >>
  /\ aSources \in SourceLists
  /\ PollIdle

\* the call: the document is built and posted to executeTasks
runColumnAnalysisForSources(projectName) ==
  /\ pc = "idle"
  /\ ops = << >>
  /\ proj' = addSources(ColumnAnalysis(Project(projectName)), aSources)
  /\ IF SetupIncomplete(auth, host, port)
       THEN pc' = "threw" /\ UNCHANGED ops
       ELSE ops' = Append(ops, NewCall("runColumnAnalysisForSources")) /\ UNCHANGED pc
  /\ UNCHANGED <<connVars, cat, requests, bCreate, typesToIgnoreItems, pending, issued,
                 schemasDiscovered, schemasAdded, aFileList, chains, callbacks, labels,
                 docVars, pollVars, utilVars>>

SourcesNext ==
  \/ runColumnAnalysisForSources(ProjectName)
  \/ \E i \in 1..Len(ops), statusCode \in ResponseStatuses : plainResponse(i, statusCode)

SourcesSpec == SourcesInit /\ [][SourcesNext]_vars

\* the Column elements of the first RunColumnAnalysis task of the document
AnalysisTargets(doc) ==
  LET ij == TaskItem0(doc, "RunColumnAnalysis")
  IN doc.children[ij[1]].children[ij[2]].children

\* a target is a file target when its name ends in ":*" and a table target
\* when it ends in ".*"
TargetKind(target) ==
  LET n == Len(target.name)
  IN IF n >= 2 /\ target.name[n] = "*" /\ target.name[n - 1] = ":" THEN "file"
     ELSE IF n >= 2 /\ target.name[n] = "*" /\ target.name[n - 1] = "." THEN "table"
     ELSE "none"

\* the positions of a character in a source
PositionsOf(str, ch) == {i \in 1..Len(str) : str[i] = ch}

ColonBeforeDot(str) ==
  \E i \in PositionsOf(str, ":") : \A j \in PositionsOf(str, ".") : i < j

\* C17: once the document of runColumnAnalysisForSources is built, a source
\* holding a ":" before any "." (or a ":" and no ".") has given one file
\* target, a source holding "." and no ":" has given one table target, a
\* source with neither has given none; "DB1.SCH1.T1.*" has given the table
\* target of that name and "HOST1:/data:file1:*" the file target of that name.
C17_DelimiterSelectsKind ==
  ops # << >> =>
    LET targets == AnalysisTargets(proj)
    IN /\ Len(aSources) = 1 =>
            LET str == aSources[1]
            IN /\ ColonBeforeDot(str) =>
                    Len(targets) = 1 /\ TargetKind(targets[1]) = "file"
               /\ (PositionsOf(str, ".") # {} /\ PositionsOf(str, ":") = {}) =>
                    Len(targets) = 1 /\ TargetKind(targets[1]) = "table"
               /\ (PositionsOf(str, ".") = {} /\ PositionsOf(str, ":") = {}) =>
                    targets = << >>
       /\ aSources = <<TableSource>> =>
            targets = <<Elem("Column", TableSource, << >>)>>
       /\ aSources = <<FileSource>> =>
            targets = <<Elem("Column", FileSource, << >>)>>
       /\ aSources = <<TableSource, FileSource>> =>
            /\ Len(targets) = 2
            /\ TargetKind(targets[1]) = "table"
            /\ TargetKind(targets[2]) = "file"

C17_Witness ==
  /\ ops # << >>
  /\ aSources = <<<<":", ".", "a">>>>
  /\ TargetKind(AnalysisTargets(proj)[1]) = "file"

(***************************************************************************)
(* A caller building one Project document: tables, files and tasks are     *)
(* added to it in any order.  built keeps what the caller has asked for.   *)
(***************************************************************************)
\* operations on the one Project
MaxBuilt == 4

HDFS == <<"H", "D", "F", "S">>
Folder1 == <<"/", "d", "a", "t", "a">>
File1 == <<"f", "1">>
FieldNames == <<<<"F">>>>
ColumnNames == <<<<"A">>, <<"B">>>>
DatasourceNames == {DbName(1), HDFS}

DocInit ==
  /\ Connected
  /\ RunIdle
  /\ UtilIdle
  /\ pc = "idle"
  /\ proj = Project(ProjectName)
  /\ OpsIdle
  /\ DocIdle
  /\ PollIdle

DocFrame ==
  UNCHANGED <<connVars, cat, pc, requests, bCreate, typesToIgnoreItems, pending, issued,
              schemasDiscovered, schemasAdded, aFileList, chains, callbacks, opsVars,
              aSources, pollVars, utilVars>>

\* proj.addTable(datasource, schema, table, aColumns)
projAddTable(datasource, schema, table, aColumns) ==
  /\ Len(built) < MaxBuilt
  /\ proj' = addTable(proj, datasource, schema, table, aColumns)
  /\ built' = Append(built, [op |-> "addTable", datasource |-> datasource,
                             parent |-> schema, leaf |-> table, columns |-> aColumns])
  /\ DocFrame

\* proj.addFile(datasource, folder, file, aFields)
projAddFile(datasource, folder, file, aFields) ==
  /\ Len(built) < MaxBuilt
  /\ proj' = addFile(proj, datasource, folder, file, aFields)
  /\ built' = Append(built, [op |-> "addFile", datasource |-> datasource,
                             parent |-> folder, leaf |-> file, columns |-> aFields])
  /\ DocFrame

\* new ColumnAnalysis(proj, ..)
newColumnAnalysis ==
  /\ Len(built) < MaxBuilt
  /\ proj' = ColumnAnalysis(proj)
  /\ built' = Append(built, [op |-> "ColumnAnalysis", datasource |-> Undefined,
                             parent |-> Undefined, leaf |-> Undefined, columns |-> << >>])
  /\ DocFrame

\* new PublishResults(proj)
newPublishResults ==
  /\ Len(built) < MaxBuilt
  /\ proj' = PublishResults(proj)
  /\ built' = Append(built, [op |-> "PublishResults", datasource |-> Undefined,
                             parent |-> Undefined, leaf |-> Undefined, columns |-> << >>])
  /\ DocFrame

\* proj.setDescription(desc)
projSetDescription(desc) ==
  /\ Len(built) < MaxBuilt
  /\ proj' = setDescription(proj, desc)
  /\ built' = Append(built, [op |-> "setDescription", datasource |-> Undefined,
                             parent |-> Undefined, leaf |-> desc, columns |-> << >>])
  /\ DocFrame

DocNext ==
  \/ projSetDescription(ProjectDescription)
  \/ \E datasource \in DatasourceNames, table \in {T1, T2} :
       projAddTable(datasource, SCH1, table, ColumnNames)
  \/ \E datasource \in DatasourceNames : projAddFile(datasource, Folder1, File1, FieldNames)
  \/ newColumnAnalysis
  \/ newPublishResults

DocSpec == DocInit /\ [][DocNext]_vars

\* what the caller has asked for, by kind of operation
BuiltOf(kinds) == SelectSeq(built, LAMBDA b : b.op \in kinds)

\* the children of the containers of a tag, one sequence after the other
RECURSIVE ChildrenOfAll(_, _, _)
ChildrenOfAll(doc, tag, i) ==
  IF i > Len(doc.children) THEN << >>
  ELSE (IF doc.children[i].tag = tag THEN doc.children[i].children ELSE << >>)
       \o ChildrenOfAll(doc, tag, i + 1)

\* C18: whatever addTable, addFile, ColumnAnalysis and PublishResults
\* operations were applied to the Project, its document has at most one
\* Tasks and at most one DataSources container; a container is there exactly
\* when an operation has used it (it is created on first use), and it holds
\* one child for every operation that has used it (later ones reuse it).
C18_OneContainerOfEachKind ==
  LET nTasks == getElementsByTagName(proj, "Tasks")
      nDS == getElementsByTagName(proj, "DataSources")
      tasks == BuiltOf({"ColumnAnalysis", "PublishResults"})
      adds == BuiltOf({"addTable", "addFile"})
  IN /\ Cardinality(nTasks) <= 1
     /\ Cardinality(nDS) <= 1
     /\ (nTasks # {}) <=> (tasks # << >>)
     /\ (nDS # {}) <=> (adds # << >>)
     /\ \A i \in nTasks : Len(proj.children[i].children) = Len(tasks)
     /\ \A i \in nDS : Len(proj.children[i].children) = Len(adds)

C18_Witness ==
  /\ Len(BuiltOf({"ColumnAnalysis"})) = 1
  /\ Len(BuiltOf({"PublishResults"})) = 1
  /\ Len(BuiltOf({"addTable"})) = 1
  /\ Len(BuiltOf({"addFile"})) = 1
  /\ Cardinality(getElementsByTagName(proj, "Tasks")) = 1
  /\ Cardinality(getElementsByTagName(proj, "DataSources")) = 1

\* the task elements of a tag in the document
TaskNodes(doc, tag) ==
  SelectSeq(ChildrenOfAll(doc, "Tasks", 1), LAMBDA e : e.tag = tag)

\* C19: whatever task constructions were applied to the Project, its
\* document holds at most one RunColumnAnalysis and at most one
\* PublishResults element.
C19_OneTaskOfEachKind ==
  /\ Len(TaskNodes(proj, "RunColumnAnalysis")) <= 1
  /\ Len(TaskNodes(proj, "PublishResults")) <= 1

\* C20: after n addTable and addFile calls the document holds exactly n
\* DataSource elements, the i-th being the one the i-th call has appended
\* (named as asked, with a Schema/Table or a FileFolder/FileName of its own
\* holding the columns), also when an earlier call had the same names; so
\* no call has changed an element added before it.
C20_EachAddAppendsOneDataSource ==
  LET adds == BuiltOf({"addTable", "addFile"})
      sources == ChildrenOfAll(proj, "DataSources", 1)
  IN /\ Len(sources) = Len(adds)
     /\ \A i \in 1..Len(adds) :
          LET a == adds[i]
              e == sources[i]
          IN /\ e.tag = "DataSource"
             /\ e.name = a.datasource
             /\ Len(e.children) = 1
             /\ e.children[1].tag = (IF a.op = "addTable" THEN "Schema" ELSE "FileFolder")
             /\ e.children[1].name = a.parent
             /\ Len(e.children[1].children) = 1
             /\ e.children[1].children[1].tag =
                  (IF a.op = "addTable" THEN "Table" ELSE "FileName")
             /\ e.children[1].children[1].name = a.leaf
             /\ Len(e.children[1].children[1].children) = Len(a.columns)
             /\ \A c \in 1..Len(a.columns) :
                  /\ e.children[1].children[1].children[c].tag = "Column"
                  /\ e.children[1].children[1].children[c].name = a.columns[c]

\* C20 witness: the same file and the same table were added twice each
C20_Witness ==
  LET adds == BuiltOf({"addTable", "addFile"})
  IN /\ Len(adds) = 4
     /\ adds[1] = adds[3] /\ adds[1].op = "addFile"
     /\ adds[2] = adds[4] /\ adds[2].op = "addTable"
     /\ Len(ChildrenOfAll(proj, "DataSources", 1)) = 4

\* the names of the elements at the positions of a tag, in document order
NamesOf(nodes) == [i \in 1..Len(nodes) |-> nodes[i].name]

MaxNameLen == 1

Bars == <<"|", "|">>
NameChars == {"a", ":", ".", "|"}
Names == SeqsUpTo(NameChars, MaxNameLen) \ {<< >>}

\* _getIdentityStringForTable(host, database, schema, tablename)
_getIdentityStringForTable(hostName, database, schema, tablename) ==
  hostName \o Bars \o database \o Dot \o schema \o Dot \o tablename

\* sHostName + "::" + sDbName + "::" + sSchemaName + "::" + sTblName
TableIdentity(sHostName, sDbName, sSchemaName, sTblName) ==
  sHostName \o Sep \o sDbName \o Sep \o sSchemaName \o Sep \o sTblName

IdentityInit ==
  /\ Connected
  /\ RunIdle
  /\ pc = "idle"
  /\ proj = Undefined
  /\ OpsIdle
  /\ DocIdle
  /\ PollIdle
  /\ idParts \in {<<h, d, sc, t>> : h \in Names, d \in Names, sc \in Names, t \in Names}
  /\ idString = Empty
  /\ idForm = "none"
  /\ StaleIdle
  /\ ReindexIdle
  /\ ToolIdle

IdentityFrame ==
  UNCHANGED <<connVars, cat, pc, requests, runVars, apiVars, idParts, staleVars,
              reindexVars, toolVars>>

\* the identity of a table as the tables callback compares it with the
\* ignore list
buildTableIdentity ==
  /\ idForm = "none"
  /\ idString' = TableIdentity(idParts[1], idParts[2], idParts[3], idParts[4])
  /\ idForm' = "::"
  /\ IdentityFrame

\* the identity of a table in the later revision
buildIdentityStringForTable ==
  /\ idForm = "none"
  /\ idString' = _getIdentityStringForTable(idParts[1], idParts[2], idParts[3], idParts[4])
  /\ idForm' = "||"
  /\ IdentityFrame

IdentityNext ==
  \/ buildTableIdentity
  \/ buildIdentityStringForTable

IdentitySpec == IdentityInit /\ [][IdentityNext]_vars

\* an identity string taken apart at its delimiters: at every "::", or at
\* the first "||" and then at every "."
SplitIdentity(str, form) ==
  IF form = "::" THEN Split(str, Sep)
  ELSE LET i == IndexOf(str, Bars)
       IN IF i = -1 THEN <<str>>
          ELSE <<Substring(str, 0, i)>> \o Split(SubstringFrom(str, i + 2), Dot)

\* C22: for every host, database, schema and table, the identity string
\* built from them, taken apart at its delimiters, gives exactly the four
\* names back.
C22_SplitRecoversComponents ==
  idForm # "none" => SplitIdentity(idString, idForm) = idParts

(***************************************************************************)
(* getStaleAnalysisResults.  The server holds two tables and a file, each  *)
(* with the times at which it was analysed; some of them are data sources  *)
(* of the project.  The earlier revisions compare the data sources of the  *)
(* project with the analysis results found by two searches; the later one  *)
(* reads the time of the last analysis from the list of data sources.      *)
(***************************************************************************)
\* the latest time of an analysis
MaxTime == 2

Times == 1..MaxTime
TableA == [kind |-> "table", host |-> <<"HOST1">>, parts |-> <<<<"DB1">>, <<"SCH1">>, <<"T1">>>>]
TableB == [kind |-> "table", host |-> <<"HOST1">>, parts |-> <<<<"DB1">>, <<"SCH1">>, <<"T2">>>>]
FileA == [kind |-> "file", host |-> <<"HDFS">>, parts |-> <<<<"HDFS">>, <<"/data">>, <<"file1">>>>]
AllSources == <<TableA, TableB, FileA>>
SourceIds == 1..Len(AllSources)

\* the name of a data source in the project: DB.SCHEMA.TABLE or
\* HOST:PATH:FILENAME
QualifiedName(src) ==
  LET d == IF src.kind = "table" THEN Dot ELSE Colon
  IN src.parts[1] \o d \o src.parts[2] \o d \o src.parts[3]

\* getProjectDataSourceList(projectName, true, ..): one entry for every
\* column of every data source
ColumnsOfSource == <<<<"A">>, <<"B">>>>
RECURSIVE DataSourceList(_, _)
DataSourceList(members, i) ==
  IF i > Len(AllSources) THEN << >>
  ELSE (IF i \in members
          THEN LET d == IF AllSources[i].kind = "table" THEN Dot ELSE Colon
               IN [c \in 1..Len(ColumnsOfSource) |->
                     QualifiedName(AllSources[i]) \o d \o ColumnsOfSource[c]]
          ELSE << >>)
       \o DataSourceList(members, i + 1)

\* the times of a set, earliest first or latest first
RECURSIVE TimesInOrder(_, _)
TimesInOrder(times, ascending) ==
  IF times = {} THEN << >>
  ELSE LET t == IF ascending
                  THEN CHOOSE x \in times : \A y \in times : x <= y
                  ELSE CHOOSE x \in times : \A y \in times : x >= y
       IN <<t>> \o TimesInOrder(times \ {t}, ascending)

\* the items of the search for table_analysis: every property asked for
\* is there
TableAnalysisItems(i, ascending) ==
  LET src == AllSources[i]
      times == TimesInOrder(analysed[i], ascending)
  IN [k \in 1..Len(times) |->
        [host |-> src.host, db |-> src.parts[1], schema |-> src.parts[2],
         name |-> src.parts[3], modified_on |-> times[k]]]

\* the items of the search for file_record_analysis: the path and the host
\* of the file are not among the properties asked for
FileAnalysisItems(i, ascending) ==
  LET src == AllSources[i]
      times == TimesInOrder(analysed[i], ascending)
  IN [k \in 1..Len(times) |->
        [host |-> Undefined, path |-> Undefined, name |-> src.parts[3],
         modified_on |-> times[k]]]

SearchItems(kind, ascending) ==
  Flatten([i \in SourceIds |->
             IF AllSources[i].kind # kind THEN << >>
             ELSE IF kind = "table" THEN TableAnalysisItems(i, ascending)
             ELSE FileAnalysisItems(i, ascending)])

\* the loop over aDataSources: the column is cut off and the rest is a key
\* of projectFiles when it has a ":", of projectTables when it has a "."
RECURSIVE ProjectKeys(_, _, _)
ProjectKeys(sources, kind, keys) ==
  IF sources = << >> THEN keys
  ELSE LET sDataSource == Head(sources)
           isFile == IndexOf(sDataSource, Colon) > -1
           isTable == ~isFile /\ IndexOf(sDataSource, Dot) > -1
           key == IF isFile
                    THEN Substring(sDataSource, 0, LastIndexOf(sDataSource, Colon))
                    ELSE Substring(sDataSource, 0, LastIndexOf(sDataSource, Dot))
           mine == IF kind = "file" THEN isFile ELSE isTable
       IN ProjectKeys(Tail(sources), kind,
            IF mine /\ \A k \in 1..Len(keys) : keys[k] # key THEN Append(keys, key) ELSE keys)

\* qualifiedName of an item of a search
QualifiedItem(item, kind) ==
  IF kind = "table" THEN item.db \o Dot \o item.schema \o Dot \o item.name
  ELSE item.host \o Colon \o item.path \o Colon \o item.name

\* tablesWithAnalysisResults, filesWithAnalysisResults: the latest time of
\* the items of every qualified name
RECURSIVE WithAnalysisResults(_, _, _)
WithAnalysisResults(items, kind, results) ==
  IF items = << >> THEN results
  ELSE LET item == Head(items)
           qualifiedName == QualifiedItem(item, kind)
           dModified == item.modified_on
       IN WithAnalysisResults(Tail(items), kind,
            IF qualifiedName \in DOMAIN results
              THEN IF results[qualifiedName] < dModified
                     THEN [results EXCEPT ![qualifiedName] = dModified]
                     ELSE results
              ELSE (qualifiedName :> dModified) @@ results)

\* lastAnalysis <= timeToConsiderStale
IsStale(lastAnalysis, time) == lastAnalysis <= time

\* aTablesToAnalyze: the keys without a result and those with a stale one
ToAnalyze(keys, results, time) ==
  SelectSeq(keys, LAMBDA key : key \notin DOMAIN results \/ IsStale(results[key], time))

StaleInit ==
  /\ Connected
  /\ RunIdle
  /\ pc = "idle"
  /\ proj = Undefined
  /\ OpsIdle
  /\ DocIdle
  /\ PollIdle
  /\ IdIdle
  /\ ReindexIdle
  /\ ToolIdle
  /\ analysed \in [SourceIds -> SUBSET Times]
  /\ \E members \in SUBSET SourceIds : aDataSources = DataSourceList(members, 1)
  /\ timeToConsiderStale \in Times
  /\ staleStage = "idle"
  /\ projectKeys = << >>
  /\ awaited = {}
  /\ staleCallbacks = << >>

StaleFrame ==
  UNCHANGED <<connVars, cat, requests, runVars, apiVars, idVars, reindexVars, analysed,
              aDataSources, timeToConsiderStale, toolVars>>

\* getStaleAnalysisResults(projectName, timeToConsiderStale, callback) of
\* the revision named
getStaleAnalysisResults(revision) ==
  /\ pc = "idle"
  /\ staleStage = "idle"
  /\ staleStage' = revision
  /\ UNCHANGED <<pc, projectKeys, awaited, staleCallbacks>>
  /\ StaleFrame

\* the callback of getProjectDataSourceList in the earlier revisions: the
\* two searches are started
dataSourceListResponse(statusCode) ==
  /\ pc = "idle"
  /\ staleStage = "searches"
  /\ projectKeys = << >>
  /\ IF Unsuccessful(statusCode)
       THEN pc' = "threw" /\ UNCHANGED <<projectKeys, awaited>>
       ELSE /\ projectKeys' = [table |-> ProjectKeys(aDataSources, "table", << >>),
                               file |-> ProjectKeys(aDataSources, "file", << >>)]
            /\ awaited' = {"table", "file"}
            /\ UNCHANGED pc
  /\ UNCHANGED <<staleStage, staleCallbacks>>
  /\ StaleFrame

\* the callback of the search for the analysis results of tables
staleTablesResponse(ascending) ==
  /\ pc = "idle"
  /\ "table" \in awaited
  /\ awaited' = awaited \ {"table"}
  /\ staleCallbacks' =
       Append(staleCallbacks,
         ToAnalyze(projectKeys.table,
                   WithAnalysisResults(SearchItems("table", ascending), "table", << >>),
                   timeToConsiderStale))
  /\ UNCHANGED <<pc, staleStage, projectKeys>>
  /\ StaleFrame

\* the callback of the search for the analysis results of files: the
\* result of a file that has one is called as a function, which throws
staleFilesResponse(ascending) ==
  /\ pc = "idle"
  /\ "file" \in awaited
  /\ awaited' = awaited \ {"file"}
  /\ LET results == WithAnalysisResults(SearchItems("file", ascending), "file", << >>)
     IN IF \E k \in 1..Len(projectKeys.file) : projectKeys.file[k] \in DOMAIN results
          THEN pc' = "threw" /\ UNCHANGED staleCallbacks
          ELSE /\ staleCallbacks' = Append(staleCallbacks, projectKeys.file)
               /\ UNCHANGED pc
  /\ UNCHANGED <<staleStage, projectKeys>>
  /\ StaleFrame

\* row.LASTANALYZED of a data source: null when it was never analysed
LastAnalyzed(i) ==
  IF analysed[i] = {} THEN << >>
  ELSE <<CHOOSE t \in analysed[i] : \A u \in analysed[i] : t >= u>>

\* the data sources getProjectDataSourceList returns in the later revision
DataSourceObjects ==
  LET members == {i \in SourceIds :
                    \E k \in 1..Len(aDataSources) :
                      StartsWith(aDataSources[k], QualifiedName(AllSources[i]))}
  IN SelectSeq([i \in SourceIds |->
                  [type |-> AllSources[i].kind, rid |-> i,
                   identity |-> IF AllSources[i].kind = "table"
                                  THEN _getIdentityStringForTable(AllSources[i].host,
                                         AllSources[i].parts[1], AllSources[i].parts[2],
                                         AllSources[i].parts[3])
                                  ELSE AllSources[i].host \o Bars \o AllSources[i].parts[2]
                                       \o Colon \o AllSources[i].parts[3],
                   lastAnalyzed |-> LastAnalyzed(i)]],
               LAMBDA ds : ds.rid \in members)

\* the callback of getProjectDataSourceList in the later revision
dataSourceObjectsResponse(statusCode) ==
  /\ pc = "idle"
  /\ staleStage = "lastAnalyzed"
  /\ staleCallbacks = << >>
  /\ IF Unsuccessful(statusCode)
       THEN pc' = "threw" /\ UNCHANGED staleCallbacks
       ELSE /\ staleCallbacks' =
                 <<SelectSeq(DataSourceObjects,
                     LAMBDA dataSource :
                       \/ dataSource.lastAnalyzed = << >>
                       \/ IsStale(dataSource.lastAnalyzed[1], timeToConsiderStale))>>
            /\ UNCHANGED pc
  /\ UNCHANGED <<staleStage, projectKeys, awaited>>
  /\ StaleFrame

StaleNext ==
  \/ \E revision \in {"searches", "lastAnalyzed"} : getStaleAnalysisResults(revision)
  \/ \E statusCode \in Statuses : dataSourceListResponse(statusCode)
  \/ \E ascending \in BOOLEAN : staleTablesResponse(ascending)
  \/ \E ascending \in BOOLEAN : staleFilesResponse(ascending)
  \/ \E statusCode \in Statuses : dataSourceObjectsResponse(statusCode)

StaleSpec == StaleInit /\ [][StaleNext]_vars

\* the data sources of the project, and those of them that were never
\* analysed or whose latest analysis is before the time given
ProjectMembers ==
  {i \in SourceIds :
     \E k \in 1..Len(aDataSources) : StartsWith(aDataSources[k], QualifiedName(AllSources[i]))}
StaleMembers ==
  {i \in ProjectMembers : \A t \in analysed[i] : t < timeToConsiderStale}

\* the data sources a call of the callback has handed over
HandedOver(result) ==
  IF staleStage = "searches"
    THEN {i \in SourceIds : \E k \in 1..Len(result) : result[k] = QualifiedName(AllSources[i])}
    ELSE {i \in SourceIds : \E k \in 1..Len(result) : result[k].rid = i}

\* the call has been answered to the end
StaleFinished ==
  /\ pc = "idle"
  /\ \/ staleStage = "searches" /\ projectKeys # << >> /\ awaited = {}
     \/ staleStage = "lastAnalyzed" /\ staleCallbacks # << >>

\* C23: once getStaleAnalysisResults has been answered to the end, what it
\* has handed to the callback are exactly the data sources of the project
\* that were never analysed or whose latest analysis is before
\* timeToConsiderStale; a data source analysed at that time or later is
\* not among them.
C23_ExactlyTheStaleSources ==
  StaleFinished =>
    UNION {HandedOver(staleCallbacks[c]) : c \in 1..Len(staleCallbacks)} = StaleMembers

\* C27: getStaleAnalysisResults invokes the callback at most once, and once
\* it has been answered to the end exactly once, with a list that holds
\* every stale data source, tables and files together.
C27_OneCallbackWithAllSources ==
  /\ Len(staleCallbacks) <= 1
  /\ StaleFinished =>
       /\ Len(staleCallbacks) = 1
       /\ StaleMembers \subseteq HandedOver(staleCallbacks[1])

(***************************************************************************)
(* reindexThinClient: the parameters the caller leaves out are given their *)
(* defaults in the query of the request.                                   *)
(***************************************************************************)
\* calls of reindexThinClient
MaxReindexCalls == 1

True == <<"true">>
False == <<"false">>
BatchSizes == {Undefined, <<"25">>, <<"50">>}
SolrBatchSizes == {Undefined, <<"100">>, <<"200">>}
Flags == {Undefined, True, False}

\* _getValueOrDefault(val, def)
_getValueOrDefault(val, def) == IF val = Undefined THEN def ELSE val

\* the query of the request: "?batchSize=" + .. + "&solrBatchSize=" + ..
\* + "&upgrade=" + .. + "&force=" + ..
ReindexQuery(batchSize, solrBatchSize, upgrade, force) ==
  [batchSize |-> _getValueOrDefault(batchSize, <<"25">>),
   solrBatchSize |-> _getValueOrDefault(solrBatchSize, <<"100">>),
   upgrade |-> _getValueOrDefault(upgrade, False),
   force |-> _getValueOrDefault(force, True)]

ReindexInit ==
  /\ Connected
  /\ RunIdle
  /\ pc = "idle"
  /\ proj = Undefined
  /\ OpsIdle
  /\ DocIdle
  /\ PollIdle
  /\ IdIdle
  /\ StaleIdle
  /\ ToolIdle
  /\ reindexCalls = << >>

ReindexFrame ==
  UNCHANGED <<connVars, cat, requests, runVars, apiVars, idVars, staleVars, toolVars>>

\* reindexThinClient(batchSize, solrBatchSize, upgrade, force, callback)
reindexThinClient(batchSize, solrBatchSize, upgrade, force) ==
  /\ pc = "idle"
  /\ Len(reindexCalls) < MaxReindexCalls
  /\ reindexCalls' =
       Append(reindexCalls,
              [batchSize |-> batchSize, solrBatchSize |-> solrBatchSize,
               upgrade |-> upgrade, force |-> force, stage |-> "request", callbacks |-> 0,
               query |-> ReindexQuery(batchSize, solrBatchSize, upgrade, force)])
  /\ UNCHANGED pc
  /\ ReindexFrame

\* the answer to the request
reindexResponse(i, statusCode) ==
  /\ pc = "idle"
  /\ i \in 1..Len(reindexCalls)
  /\ reindexCalls[i].stage = "request"
  /\ IF Unsuccessful(statusCode)
       THEN /\ pc' = "threw"
            /\ reindexCalls' = [reindexCalls EXCEPT ![i].stage = "threw"]
       ELSE /\ reindexCalls' = [reindexCalls EXCEPT ![i].stage = "done", ![i].callbacks = @ + 1]
            /\ UNCHANGED pc
  /\ ReindexFrame

ReindexNext ==
  \/ \E batchSize \in BatchSizes, solrBatchSize \in SolrBatchSizes, upgrade \in Flags,
        force \in Flags : reindexThinClient(batchSize, solrBatchSize, upgrade, force)
  \/ \E i \in 1..Len(reindexCalls), statusCode \in Statuses : reindexResponse(i, statusCode)

ReindexSpec == ReindexInit /\ [][ReindexNext]_vars

\* C24: a call of reindexThinClient that leaves force unspecified sends its
\* request with force=false, the default of the documentation, and a call
\* that specifies force sends what it was given.
C24_ForceDefaultsToFalse ==
  \A i \in 1..Len(reindexCalls) :
    reindexCalls[i].query.force =
      (IF reindexCalls[i].force = Undefined THEN False ELSE reindexCalls[i].force)

(***************************************************************************)
(* Refresh of column analysis driven by events (the second script of       *)
(* src/utils/perfTestRules.js).  The stale sources are submitted for       *)
(* analysis and the utility then follows the events of the Information     *)
(* Server: a finished analysis is published, a failed one is logged, and   *)
(* the emitter's 'end' event, whose handler exits the process, is emitted  *)
(* by recordCompletion.  The events are the environment: any TAM RID,      *)
(* finished or failed, in any order and more than once.                    *)
(***************************************************************************)
\* the TAM RIDs of the project and the events delivered to the utility
MaxTams == 2
MaxTamEvents == 3

TamRids == 1..MaxTams
NoEvents == [delivered |-> 0, committed |-> 0]

\* the number of elements of seq equal to x
Occurrences(seq, x) == Cardinality({i \in 1..Len(seq) : seq[i] = x})

\* the script up to its first callback: getStaleAnalysisResults is called
RefreshInit ==
  /\ Connected
  /\ RunIdle
  /\ pc = "idle"
  /\ proj = Undefined
  /\ ApiIdle
  /\ IdIdle
  /\ StaleIdle
  /\ ReindexIdle
  /\ PerfIdle
  /\ refreshStage = "stale"
  /\ aStaleSources = {}
  /\ tamsToSources = {}
  /\ iTotalTAMs = 0
  /\ tamsProcessed = << >>
  /\ publishing = [t \in TamRids |-> 0]
  /\ tamEvents = NoEvents

RefreshFrame ==
  UNCHANGED <<connVars, cat, pc, requests, runVars, apiVars, idVars, staleVars, reindexVars,
              perfVars>>

RefreshAlive == refreshStage \in {"stale", "doRun", "tracking"}

\* recordCompletion(tamRid) with tamRid a TAM RID: the stage and the list
\* it leaves; emit('end') runs the handler that exits the process
TamsRecording(tamRid) == Append(tamsProcessed, tamRid)
StageAfterRecord(processed) ==
  IF iTotalTAMs = Len(processed) THEN "ended" ELSE refreshStage

\* the callback of getStaleAnalysisResults: the sources are counted and
\* handed to runColumnAnalysisForDataSources
staleSourcesCallback(sources) ==
  /\ refreshStage = "stale"
  /\ aStaleSources' = sources
  /\ iTotalTAMs' = Cardinality(sources)
  /\ refreshStage' = "doRun"
  /\ UNCHANGED <<tamsToSources, tamsProcessed, publishing, tamEvents>>
  /\ RefreshFrame

\* the callback of runColumnAnalysisForDataSources: without sources it is
\* called at once with an empty dictionary, otherwise by the answer to the
\* doRun request, which throws unless the status is 200; the callback keeps
\* the dictionary and calls recordCompletion(null)
columnAnalysisCallback(statusCode) ==
  /\ refreshStage = "doRun"
  /\ IF aStaleSources # {} /\ Unsuccessful(statusCode)
       THEN /\ refreshStage' = "threw"
            /\ UNCHANGED tamsToSources
       ELSE /\ tamsToSources' = aStaleSources
            /\ refreshStage' =
                 IF iTotalTAMs = Len(tamsProcessed) THEN "ended" ELSE "tracking"
  /\ UNCHANGED <<aStaleSources, iTotalTAMs, tamsProcessed, publishing, tamEvents>>
  /\ RefreshFrame

\* publishAnalysis: the handler of IA_DATAQUALITY_ANALYSIS_FINISHED_EVENT
publishAnalysis(tamRid) ==
  /\ RefreshAlive
  /\ tamEvents.delivered < MaxTamEvents
  /\ IF tamRid \in tamsToSources
       THEN /\ publishing' = [publishing EXCEPT ![tamRid] = @ + 1]
            /\ tamEvents' = [tamEvents EXCEPT !.delivered = @ + 1]
       ELSE /\ tamEvents' = [tamEvents EXCEPT !.delivered = @ + 1, !.committed = @ + 1]
            /\ UNCHANGED publishing
  /\ UNCHANGED <<refreshStage, aStaleSources, tamsToSources, iTotalTAMs, tamsProcessed>>
  /\ RefreshFrame

\* the answer to the doPublish request of publishAnalysis
publishResponse(tamRid, statusCode) ==
  /\ RefreshAlive
  /\ publishing[tamRid] > 0
  /\ publishing' = [publishing EXCEPT ![tamRid] = @ - 1]
  /\ IF Unsuccessful(statusCode)
       THEN /\ refreshStage' = "threw"
            /\ UNCHANGED <<tamsProcessed, tamEvents>>
       ELSE /\ tamEvents' = [tamEvents EXCEPT !.committed = @ + 1]
            /\ tamsProcessed' = TamsRecording(tamRid)
            /\ refreshStage' = StageAfterRecord(TamsRecording(tamRid))
  /\ UNCHANGED <<aStaleSources, tamsToSources, iTotalTAMs>>
  /\ RefreshFrame

\* logFailure: the handler of IA_DATAQUALITY_ANALYSIS_FAILED_EVENT
logFailure(tamRid) ==
  /\ RefreshAlive
  /\ tamEvents.delivered < MaxTamEvents
  /\ tamEvents' = [tamEvents EXCEPT !.delivered = @ + 1, !.committed = @ + 1]
  /\ IF tamRid \in tamsToSources
       THEN /\ tamsProcessed' = TamsRecording(tamRid)
            /\ refreshStage' = StageAfterRecord(TamsRecording(tamRid))
       ELSE UNCHANGED <<tamsProcessed, refreshStage>>
  /\ UNCHANGED <<aStaleSources, tamsToSources, iTotalTAMs, publishing>>
  /\ RefreshFrame

RefreshNext ==
  \/ \E sources \in SUBSET TamRids : staleSourcesCallback(sources)
  \/ \E statusCode \in Statuses : columnAnalysisCallback(statusCode)
  \/ \E tamRid \in TamRids : publishAnalysis(tamRid)
  \/ \E tamRid \in TamRids, statusCode \in Statuses : publishResponse(tamRid, statusCode)
  \/ \E tamRid \in TamRids : logFailure(tamRid)

RefreshSpec == RefreshInit /\ [][RefreshNext]_vars

\* C29: when the 'end' event has been emitted, every dataset submitted for
\* analysis has been recorded as processed exactly once.
C29_EndAfterEachProcessedOnce ==
  refreshStage = "ended" =>
    \A tamRid \in aStaleSources : Occurrences(tamsProcessed, tamRid) = 1

(***************************************************************************)
(* Rule performance tester (the first script of                            *)
(* src/utils/perfTestRules.js).  The rules of the input file are numbered  *)
(* 1..iTotalRules in the order of ruleIds, so ruleIds[i] is rule i + 1;    *)
(* their names are taken to differ.  The command of a rule is a child      *)
(* process that returns at any time; the events of the Information Server  *)
(* are the environment and name any rule, in any order and more than once. *)
(***************************************************************************)
\* the rules of the input file and the events delivered to the tester
MaxRules == 3
MaxRuleEvents == 3

RuleNames == 1..MaxRules
Rules == 1..iTotalRules

\* ruleExecutions[ruleId] before its command is started
NewExecObj == [returned |-> FALSE, finalEvent |-> FALSE, stats |-> FALSE]

\* the script up to its first callback: runNextRule(currentRule++) has run
PerfInit ==
  /\ Connected
  /\ RunIdle
  /\ pc = "idle"
  /\ proj = Undefined
  /\ ApiIdle
  /\ IdIdle
  /\ StaleIdle
  /\ ReindexIdle
  /\ RefreshIdle
  /\ perfStage = "running"
  /\ iTotalRules \in 0..MaxRules
  /\ currentRule = 1
  /\ rulesStarted = IF 0 < iTotalRules THEN <<1>> ELSE << >>
  /\ execObjs = [k \in Rules |-> NewExecObj]
  /\ rulesProcessed = << >>
  /\ lookups = [k \in Rules |-> 0]
  /\ retries = [k \in Rules |-> 0]
  /\ ruleEvents = NoEvents

PerfFrame ==
  UNCHANGED <<connVars, cat, pc, requests, runVars, apiVars, idVars, staleVars, reindexVars,
              refreshVars, iTotalRules>>

\* rulesStarted.hasOwnProperty(ruleId)
Tracked(k) == k \in Range(rulesStarted)

\* runNextRule(index): the commands started once it has run
runNextRule(index) ==
  IF index < iTotalRules THEN Append(rulesStarted, index + 1) ELSE rulesStarted

\* the 'close' event of the command of rule k
commandClose(k) ==
  /\ perfStage = "running"
  /\ Tracked(k)
  /\ ~execObjs[k].returned
  /\ execObjs' = [execObjs EXCEPT ![k].returned = TRUE]
  /\ UNCHANGED <<perfStage, currentRule, rulesStarted, rulesProcessed, lookups, retries,
                 ruleEvents>>
  /\ PerfFrame

\* the body of closeExecution for rule k, tracked: the final event is timed
\* and the results of the execution are requested
RequestResults(k) ==
  /\ execObjs' = [execObjs EXCEPT ![k].finalEvent = TRUE]
  /\ lookups' = [lookups EXCEPT ![k] = @ + 1]

\* closeExecution: the handler of NEW_EXCEPTIONS_EVENT
closeExecution(k) ==
  /\ perfStage = "running"
  /\ ruleEvents.delivered < MaxRuleEvents
  /\ IF Tracked(k)
       THEN /\ RequestResults(k)
            /\ ruleEvents' = [ruleEvents EXCEPT !.delivered = @ + 1]
       ELSE /\ ruleEvents' = [ruleEvents EXCEPT !.delivered = @ + 1, !.committed = @ + 1]
            /\ UNCHANGED <<execObjs, lookups>>
  /\ UNCHANGED <<perfStage, currentRule, rulesStarted, rulesProcessed, retries>>
  /\ PerfFrame

\* closeExecution called again by the timer set when no statistics came
retryCloseExecution(k) ==
  /\ perfStage = "running"
  /\ retries[k] > 0
  /\ retries' = [retries EXCEPT ![k] = @ - 1]
  /\ RequestResults(k)
  /\ UNCHANGED <<perfStage, currentRule, rulesStarted, rulesProcessed, ruleEvents>>
  /\ PerfFrame

\* recordCompletion(rule) followed by runNextRule(currentRule++); the
\* handler of 'end' exits the process before the next rule is started
CompleteAndRunNext(k) ==
  /\ rulesProcessed' = Append(rulesProcessed, k)
  /\ IF iTotalRules = Len(rulesProcessed) + 1
       THEN /\ perfStage' = "ended"
            /\ UNCHANGED <<currentRule, rulesStarted, ruleEvents>>
       ELSE /\ rulesStarted' = runNextRule(currentRule)
            /\ currentRule' = currentRule + 1
            /\ ruleEvents' = [ruleEvents EXCEPT !.committed = @ + 1]
            /\ UNCHANGED perfStage

\* the callback closeExecution gives to getRuleExecutionResults, with
\* checkAndOutputResults
executionResultsCallback(k, statusCode, hasStat) ==
  /\ perfStage = "running"
  /\ lookups[k] > 0
  /\ lookups' = [lookups EXCEPT ![k] = @ - 1]
  /\ IF Unsuccessful(statusCode)
       THEN /\ perfStage' = "threw"
            /\ UNCHANGED <<currentRule, rulesStarted, execObjs, rulesProcessed, retries,
                           ruleEvents>>
       ELSE IF ~hasStat
         THEN /\ retries' = [retries EXCEPT ![k] = @ + 1]
              /\ UNCHANGED <<perfStage, currentRule, rulesStarted, execObjs, rulesProcessed,
                             ruleEvents>>
         ELSE /\ execObjs' = [execObjs EXCEPT ![k].stats = TRUE]
              /\ UNCHANGED retries
              /\ IF execObjs[k].returned /\ execObjs[k].finalEvent
                   THEN CompleteAndRunNext(k)
                   ELSE /\ ruleEvents' = [ruleEvents EXCEPT !.committed = @ + 1]
                        /\ UNCHANGED <<perfStage, currentRule, rulesStarted, rulesProcessed>>
  /\ PerfFrame

\* cancelExecution: the handler of IA_DATARULE_FAILED_EVENT, which takes
\* the rule to be ruleIds[currentRule]
cancelExecution ==
  /\ perfStage = "running"
  /\ ruleEvents.delivered < MaxRuleEvents
  /\ LET k == currentRule + 1 IN
       IF k \in Rules /\ Tracked(k)
         THEN /\ execObjs' = [execObjs EXCEPT ![k].finalEvent = TRUE]
              /\ IF execObjs[k].returned /\ execObjs[k].stats
                   THEN /\ rulesProcessed' = Append(rulesProcessed, k)
                        /\ IF iTotalRules = Len(rulesProcessed) + 1
                             THEN /\ perfStage' = "ended"
                                  /\ ruleEvents' = [ruleEvents EXCEPT !.delivered = @ + 1]
                                  /\ UNCHANGED <<currentRule, rulesStarted>>
                             ELSE /\ rulesStarted' = runNextRule(currentRule)
                                  /\ currentRule' = currentRule + 1
                                  /\ ruleEvents' = [ruleEvents EXCEPT !.delivered = @ + 1,
                                                                      !.committed = @ + 1]
                                  /\ UNCHANGED perfStage
                   ELSE /\ perfStage' = "threw"
                        /\ ruleEvents' = [ruleEvents EXCEPT !.delivered = @ + 1]
                        /\ UNCHANGED <<currentRule, rulesStarted, rulesProcessed>>
         ELSE /\ IF k \in Rules
                   THEN /\ ruleEvents' = [ruleEvents EXCEPT !.delivered = @ + 1,
                                                            !.committed = @ + 1]
                        /\ UNCHANGED perfStage
                   ELSE /\ perfStage' = "threw"
                        /\ ruleEvents' = [ruleEvents EXCEPT !.delivered = @ + 1]
              /\ UNCHANGED <<currentRule, rulesStarted, execObjs, rulesProcessed>>
  /\ UNCHANGED <<lookups, retries>>
  /\ PerfFrame

PerfNext ==
  \/ \E k \in Rules : commandClose(k)
  \/ \E k \in RuleNames : closeExecution(k)
  \/ \E k \in Rules : retryCloseExecution(k)
  \/ \E k \in Rules, statusCode \in Statuses, hasStat \in BOOLEAN :
       executionResultsCallback(k, statusCode, hasStat)
  \/ cancelExecution

PerfSpec == PerfInit /\ [][PerfNext]_vars

\* C30: the rules are executed one at a time: the command of a rule is
\* started only after the rule before it has been recorded as completed,
\* and every rule is started at most once and recorded as completed at most
\* once, whatever events arrive.
C30_OneRuleAtATime ==
  /\ \A i \in 2..Len(rulesStarted) : rulesStarted[i - 1] \in Range(rulesProcessed)
  /\ \A k \in Rules : Occurrences(rulesStarted, k) <= 1
  /\ \A k \in Rules : Occurrences(rulesProcessed, k) <= 1

====
